---- MODULE Spec2Model ----
(***************************************************************************)
(* BLAKE2s (src/src/blake2s.rs): the streaming engine (Blake2s), the keyed *)
(* wrapper (KeyedBlake2s) and the portable compression function.           *)
(*                                                                         *)
(* Machine integers: TLC's integers are 32-bit signed, so a u32 is a pair  *)
(* <<hi, lo>> of 16-bit halves and a u64 is four 16-bit limbs, least       *)
(* significant first.  All arithmetic below is modulo 2^32 resp. 2^64.     *)
(***************************************************************************)
EXTENDS Integers, Sequences, FiniteSets, TLC

----------------------------------------------------------------------------
(* u32 arithmetic                                                          *)

\* x ^ y on single bits .. nibbles, computed bit by bit
RECURSIVE XorBits(_, _, _)
XorBits(a, b, n) ==
    IF n = 0 THEN 0
    ELSE ((a + b) % 2) + 2 * XorBits(a \div 2, b \div 2, n - 1)

\* table of x ^ y for two nibbles, indexed by 16 * x + y
XorNibble == [k \in 0..255 |-> XorBits(k \div 16, k % 16, 4)]

\* x ^ y on 16-bit halves
Xor16(a, b) ==
      4096 * XorNibble[16 * (a \div 4096) + (b \div 4096)]
    + 256 * XorNibble[16 * ((a \div 256) % 16) + ((b \div 256) % 16)]
    + 16 * XorNibble[16 * ((a \div 16) % 16) + ((b \div 16) % 16)]
    + XorNibble[16 * (a % 16) + (b % 16)]

\* u32 ^ u32
Xor32(x, y) == <<Xor16(x[1], y[1]), Xor16(x[2], y[2])>>

\* !x on u32
Not32(x) == <<65535 - x[1], 65535 - x[2]>>

\* u32::wrapping_add
wrapping_add(x, y) ==
    LET lo == x[2] + y[2]
        hi == x[1] + y[1] + (lo \div 65536)
    IN  <<hi % 65536, lo % 65536>>

\* 2^n for 0 <= n <= 16
Pow2(n) == CASE n = 0 -> 1 [] n = 4 -> 16 [] n = 7 -> 128 [] n = 8 -> 256
             [] n = 9 -> 512 [] n = 12 -> 4096 [] n = 16 -> 65536

\* u32::rotate_right(x, n) for n in {7, 8, 12, 16}
rotate_right(x, n) ==
    IF n = 16 THEN <<x[2], x[1]>>
    ELSE LET d == Pow2(n)
             u == Pow2(16 - n)
         IN  <<(x[1] \div d) + u * (x[2] % d), (x[2] \div d) + u * (x[1] % d)>>

\* a small value as u32
U32(n) == <<n \div 65536, n % 65536>>

\* u32::from_le_bytes
from_le_bytes(b0, b1, b2, b3) == <<b2 + 256 * b3, b0 + 256 * b1>>

\* u32::to_le_bytes, as the byte at index k in 0..3
to_le_byte(x, k) ==
    CASE k = 0 -> x[2] % 256
      [] k = 1 -> x[2] \div 256
      [] k = 2 -> x[1] % 256
      [] k = 3 -> x[1] \div 256

----------------------------------------------------------------------------
(* u64 counter: four 16-bit limbs, least significant first                 *)

\* a small value as u64
U64(n) == <<n % 65536, n \div 65536, 0, 0>>

\* !0u64, the marker of an invalid context
POISON == <<65535, 65535, 65535, 65535>>

\* u64 += n (wrapping)
U64Add(c, n) ==
    LET s0 == c[1] + (n % 65536)
        s1 == c[2] + (n \div 65536) + (s0 \div 65536)
        s2 == c[3] + (s1 \div 65536)
        s3 == c[4] + (s2 \div 65536)
    IN  <<s0 % 65536, s1 % 65536, s2 % 65536, s3 % 65536>>

\* ctr as u32 and (ctr >> 32) as u32
CtrLo32(c) == <<c[2], c[1]>>
CtrHi32(c) == <<c[4], c[3]>>

----------------------------------------------------------------------------
(* Compression function (portable backend)                                 *)

BUF_LEN == 64

IV == [i \in 0..7 |->
        CASE i = 0 -> <<\H6A09, \HE667>> [] i = 1 -> <<\HBB67, \HAE85>>
          [] i = 2 -> <<\H3C6E, \HF372>> [] i = 3 -> <<\HA54F, \HF53A>>
          [] i = 4 -> <<\H510E, \H527F>> [] i = 5 -> <<\H9B05, \H688C>>
          [] i = 6 -> <<\H1F83, \HD9AB>> [] i = 7 -> <<\H5BE0, \HCD19>>]

\* the three kinds of statement of the gg! macro, each giving v afterwards:
\* v[a] = v[a].wrapping_add(v[b].wrapping_add(x))
gg_add_msg(v, a, b, x) ==
    CHOOSE r \in {[w EXCEPT ![a] = wrapping_add(w[a], wrapping_add(w[b], x))]
                     : w \in {v}} : TRUE

\* v[d] = v[d] ^ v[a], the rotation left out
gg_xor_norot(v, d, a, n) ==
    [v EXCEPT ![d] = Xor32(v[d], v[a])]

\* v[d] = (v[d] ^ v[a]).rotate_right(n)
gg_xor_rot(v, d, a, n) ==
    CHOOSE r \in {[w EXCEPT ![d] = rotate_right(Xor32(w[d], w[a]), n)]
                     : w \in {v}} : TRUE

\* v[c] = v[c].wrapping_add(v[d])
gg_add(v, c, d) ==
    CHOOSE r \in {[w EXCEPT ![c] = wrapping_add(w[c], w[d])] : w \in {v}} : TRUE

\* the gg! macro: its eight statements, the first one innermost
gg(v, a, b, c, d, x, y) ==
    gg_xor_rot(
      gg_add(
        gg_xor_rot(
          gg_add_msg(
            gg_xor_rot(
              gg_add(
                gg_xor_rot(
                  gg_add_msg(v, a, b, x),
                  d, a, 16),
                c, d),
              b, c, 12),
            a, b, y),
          d, a, 8),
        c, d),
      b, c, 7)

\* the rr! macro: its eight gg! invocations, as (a, b, c, d)
GG_LANES == <<
    <<0, 4,  8, 12>>,
    <<1, 5,  9, 13>>,
    <<2, 6, 10, 14>>,
    <<3, 7, 11, 15>>,
    <<0, 5, 10, 15>>,
    <<1, 6, 11, 12>>,
    <<2, 7,  8, 13>>,
    <<3, 4,  9, 14>> >>

\* invocations k .. 8 of gg! in rr!; s is the 16-entry row of message word
\* indices, and invocation k takes m[s[2k - 1]] and m[s[2k]], the source's
\* m[$s(2k-2)] and m[$s(2k-1)]
RECURSIVE rr_from(_, _, _, _)
rr_from(v, m, s, k) ==
    IF k > Len(GG_LANES) THEN v
    ELSE CHOOSE r \in {rr_from(w, m, s, k + 1)
                         : w \in {gg(v, GG_LANES[k][1], GG_LANES[k][2],
                                     GG_LANES[k][3], GG_LANES[k][4],
                                     m[s[2 * k - 1]], m[s[2 * k]])}} : TRUE

\* the rr! macro
rr(v, m, s) == rr_from(v, m, s, 1)

\* the ten rr! invocations
SIGMA == <<
    << 0,  1,  2,  3,  4,  5,  6,  7,  8,  9, 10, 11, 12, 13, 14, 15>>,
    <<14, 10,  4,  8,  9, 15, 13,  6,  1, 12,  0,  2, 11,  7,  5,  3>>,
    <<11,  8, 12,  0,  5,  2, 15, 13, 10, 14,  3,  6,  7,  1,  9,  4>>,
    << 7,  9,  3,  1, 13, 12, 11, 14,  2,  6,  5, 10,  4,  0, 15,  8>>,
    << 9,  0,  5,  7,  2,  4, 10, 15, 14,  1, 11, 12,  6,  8,  3, 13>>,
    << 2, 12,  6, 10,  0, 11,  8,  3,  4, 13,  7,  5, 15, 14,  1,  9>>,
    <<12,  5,  1, 15, 14, 13,  4, 10,  0,  7,  6,  3,  9,  2,  8, 11>>,
    <<13, 11,  7, 14, 12,  1,  3,  9,  5,  0, 15,  4,  8,  6,  2, 10>>,
    << 6, 15, 14,  9, 11,  3,  0,  8, 12,  2, 13,  7,  1,  4, 10,  5>>,
    <<10,  2,  8,  4,  7,  6,  1,  5, 15, 11,  9, 14,  3, 12, 13,  0>> >>

\* rounds r .. 10 applied to v (each round's vector is bound, as w, before
\* the next round starts, as each statement's vector is in gg!)
RECURSIVE Rounds(_, _, _)
Rounds(v, m, r) ==
    IF r > Len(SIGMA) THEN v
    ELSE CHOOSE x \in {Rounds(w, m, r + 1) : w \in {rr(v, m, SIGMA[r])}} : TRUE

\* the working vector v before the rounds
InitialV(h, ctr, last) ==
    [i \in 0..15 |->
       IF i < 8 THEN h[i]
       ELSE IF i = 12 THEN Xor32(IV[4], CtrLo32(ctr))
       ELSE IF i = 13 THEN Xor32(IV[5], CtrHi32(ctr))
       ELSE IF i = 14 /\ last THEN Not32(IV[6])
       ELSE IV[i - 8]]

\* the message words m of a block, a slice of 64 bytes (a sequence: byte k
\* of the source is block[k + 1])
MessageWords(block) ==
    [i \in 0..15 |->
       from_le_bytes(block[4 * i + 1], block[4 * i + 2],
                     block[4 * i + 3], block[4 * i + 4])]

\* h[i] ^= v[i] ^ v[i + 8]
FoldState(h, v) == [i \in 0..7 |-> Xor32(h[i], Xor32(v[i], v[i + 8]))]

\* Blake2s::process_block: the new value of h
process_block(h, block, ctr, last) ==
    CHOOSE r \in {FoldState(h, v)
                     : v \in {Rounds(w, m, 1)
                                : w \in {InitialV(h, ctr, last)},
                                  m \in {MessageWords(block)}}} : TRUE

----------------------------------------------------------------------------
(* Compression function (x86_64 backends).  An __m128i is the tuple of its *)
(* four 32-bit lanes, lane 0 first.                                        *)

\* x & y and x | y on single bits .. nibbles, computed bit by bit
RECURSIVE AndBits(_, _, _)
AndBits(a, b, n) ==
    IF n = 0 THEN 0
    ELSE ((a % 2) * (b % 2)) + 2 * AndBits(a \div 2, b \div 2, n - 1)

RECURSIVE OrBits(_, _, _)
OrBits(a, b, n) ==
    IF n = 0 THEN 0
    ELSE (IF (a % 2) + (b % 2) > 0 THEN 1 ELSE 0)
             + 2 * OrBits(a \div 2, b \div 2, n - 1)

\* tables of x & y and x | y for two nibbles, indexed by 16 * x + y
AndNibble == [k \in 0..255 |-> AndBits(k \div 16, k % 16, 4)]
OrNibble == [k \in 0..255 |-> OrBits(k \div 16, k % 16, 4)]

\* x & y and x | y on 16-bit halves
And16(a, b) ==
      4096 * AndNibble[16 * (a \div 4096) + (b \div 4096)]
    + 256 * AndNibble[16 * ((a \div 256) % 16) + ((b \div 256) % 16)]
    + 16 * AndNibble[16 * ((a \div 16) % 16) + ((b \div 16) % 16)]
    + AndNibble[16 * (a % 16) + (b % 16)]

Or16(a, b) ==
      4096 * OrNibble[16 * (a \div 4096) + (b \div 4096)]
    + 256 * OrNibble[16 * ((a \div 256) % 16) + ((b \div 256) % 16)]
    + 16 * OrNibble[16 * ((a \div 16) % 16) + ((b \div 16) % 16)]
    + OrNibble[16 * (a % 16) + (b % 16)]

\* u32 & u32 and u32 | u32
And32(x, y) == <<And16(x[1], y[1]), And16(x[2], y[2])>>
Or32(x, y) == <<Or16(x[1], y[1]), Or16(x[2], y[2])>>

\* x >> n and x << n on one u32 lane, for 0 < n < 32
Srl32(x, n) ==
    IF n >= 16 THEN <<0, x[1] \div Pow2(n - 16)>>
    ELSE <<x[1] \div Pow2(n),
           (x[2] \div Pow2(n)) + Pow2(16 - n) * (x[1] % Pow2(n))>>

\* x << n on one u32 lane keeping the bits shifted out of the low half only
\* for n < 16
Sll32_short(x, n) ==
    IF n >= 16 THEN <<0, 0>>
    ELSE <<((x[1] * Pow2(n)) % 65536) + (x[2] \div Pow2(16 - n)),
           (x[2] * Pow2(n)) % 65536>>

Sll32(x, n) ==
    IF n >= 16 THEN <<(x[2] * Pow2(n - 16)) % 65536, 0>>
    ELSE <<((x[1] * Pow2(n)) % 65536) + (x[2] \div Pow2(16 - n)),
           (x[2] * Pow2(n)) % 65536>>

\* an i32 of 0 or -1 as a lane
Lane(e) == IF e = 0 THEN <<0, 0>> ELSE <<65535, 65535>>

\* _mm_setr_epi32 of four values in {0, -1}
mm_setr_epi32(e0, e1, e2, e3) == <<Lane(e0), Lane(e1), Lane(e2), Lane(e3)>>

\* _mm_loadu_si128(transmute(&w[k])) on an array of u32
LoadWords(w, k) == <<w[k], w[k + 1], w[k + 2], w[k + 3]>>

\* _mm_loadu_si128(transmute(&block[k])) on a slice of bytes
LoadBytes(block, k) ==
    <<from_le_bytes(block[k + 1], block[k + 2], block[k + 3], block[k + 4]),
      from_le_bytes(block[k + 5], block[k + 6], block[k + 7], block[k + 8]),
      from_le_bytes(block[k + 9], block[k + 10], block[k + 11], block[k + 12]),
      from_le_bytes(block[k + 13], block[k + 14], block[k + 15], block[k + 16])>>

mm_add_epi32(a, b) ==
    <<wrapping_add(a[1], b[1]), wrapping_add(a[2], b[2]),
      wrapping_add(a[3], b[3]), wrapping_add(a[4], b[4])>>

mm_xor_si128(a, b) ==
    <<Xor32(a[1], b[1]), Xor32(a[2], b[2]), Xor32(a[3], b[3]), Xor32(a[4], b[4])>>

mm_or_si128(a, b) ==
    <<Or32(a[1], b[1]), Or32(a[2], b[2]), Or32(a[3], b[3]), Or32(a[4], b[4])>>

mm_and_si128(a, b) ==
    <<And32(a[1], b[1]), And32(a[2], b[2]), And32(a[3], b[3]), And32(a[4], b[4])>>

\* a & (!b), the operands of _mm_andnot_si128 exchanged
mm_andnot_si128_swapped(a, b) ==
    <<And32(a[1], Not32(b[1])), And32(a[2], Not32(b[2])),
      And32(a[3], Not32(b[3])), And32(a[4], Not32(b[4]))>>

\* (!a) & b
mm_andnot_si128(a, b) ==
    <<And32(Not32(a[1]), b[1]), And32(Not32(a[2]), b[2]),
      And32(Not32(a[3]), b[3]), And32(Not32(a[4]), b[4])>>

mm_srli_epi32(a, n) ==
    <<Srl32(a[1], n), Srl32(a[2], n), Srl32(a[3], n), Srl32(a[4], n)>>

mm_slli_epi32(a, n) ==
    <<Sll32(a[1], n), Sll32(a[2], n), Sll32(a[3], n), Sll32(a[4], n)>>

\* _mm_shuffle_epi32 reading the fields of imm from the top: lane i of the
\* result is lane (imm >> (6 - 2i)) & 3 of a
mm_shuffle_epi32_reversed(a, imm) ==
    <<a[((imm \div 64) % 4) + 1], a[((imm \div 16) % 4) + 1],
      a[((imm \div 4) % 4) + 1], a[(imm % 4) + 1]>>

\* lane i of the result is lane (imm >> 2i) & 3 of a
mm_shuffle_epi32(a, imm) ==
    <<a[(imm % 4) + 1], a[((imm \div 4) % 4) + 1],
      a[((imm \div 16) % 4) + 1], a[((imm \div 64) % 4) + 1]>>

\* _mm_blend_epi32 taking a's lane where the bit of imm is set
mm_blend_epi32_swapped(a, b, imm) ==
    <<IF imm % 2 = 1 THEN a[1] ELSE b[1],
      IF (imm \div 2) % 2 = 1 THEN a[2] ELSE b[2],
      IF (imm \div 4) % 2 = 1 THEN a[3] ELSE b[3],
      IF (imm \div 8) % 2 = 1 THEN a[4] ELSE b[4]>>

\* lane i of the result is lane i of b if bit i of imm is set, else of a
mm_blend_epi32(a, b, imm) ==
    <<IF imm % 2 = 1 THEN b[1] ELSE a[1],
      IF (imm \div 2) % 2 = 1 THEN b[2] ELSE a[2],
      IF (imm \div 4) % 2 = 1 THEN b[3] ELSE a[3],
      IF (imm \div 8) % 2 = 1 THEN b[4] ELSE a[4]>>

mm_unpacklo_epi64(a, b) == <<a[1], a[2], b[1], b[2]>>
mm_unpackhi_epi64(a, b) == <<a[3], a[4], b[3], b[4]>>

\* byte j (0..15) of a
ByteAt(a, j) == to_le_byte(a[(j \div 4) + 1], j % 4)

\* the byte _mm_shuffle_epi8 selects with control byte s
ShuffledByte(a, s) == IF s >= 128 THEN 0 ELSE ByteAt(a, s % 16)

\* _mm_shuffle_epi8(a, b), b the sixteen control bytes
mm_shuffle_epi8(a, b) ==
    [i \in 1..4 |->
       from_le_bytes(ShuffledByte(a, b[4 * i - 3]), ShuffledByte(a, b[4 * i - 2]),
                     ShuffledByte(a, b[4 * i - 1]), ShuffledByte(a, b[4 * i]))]

\* _mm_setr_epi8 constants of the AVX2 body
xror8 == <<1, 2, 3, 0, 5, 6, 7, 4, 9, 10, 11, 8, 13, 14, 15, 12>>
xror16 == <<2, 3, 0, 1, 6, 7, 4, 5, 10, 11, 8, 9, 14, 15, 12, 13>>

\* lane masks of the SSE2 body
xz1 == mm_setr_epi32(-1, 0, 0, 0)
xz2 == mm_setr_epi32(0, -1, 0, 0)
xz3 == mm_setr_epi32(-1, -1, 0, 0)
xz4 == mm_setr_epi32(0, 0, -1, 0)
xz5 == mm_setr_epi32(-1, 0, -1, 0)
xz6 == mm_setr_epi32(0, -1, -1, 0)
xz7 == mm_setr_epi32(-1, -1, -1, 0)

\* "Initialize state": <<xv0, xv1, xv2, xv3>>
VectorInit(h, ctr, last) ==
    <<LoadWords(h, 0), LoadWords(h, 4), LoadWords(IV, 0),
      mm_xor_si128(LoadWords(IV, 4),
                   <<CtrLo32(ctr), CtrHi32(ctr),
                     Lane(IF last THEN -1 ELSE 0), Lane(0)>>)>>

\* "Load data and move it into the proper order for the first round":
\* <<xm0, xm1, xm2, xm3>>
VectorLoad(block) ==
    <<mm_unpacklo_epi64(mm_shuffle_epi32(LoadBytes(block, 0), 216),
                        mm_shuffle_epi32(LoadBytes(block, 16), 216)),
      mm_unpackhi_epi64(mm_shuffle_epi32(LoadBytes(block, 0), 216),
                        mm_shuffle_epi32(LoadBytes(block, 16), 216)),
      mm_unpacklo_epi64(mm_shuffle_epi32(LoadBytes(block, 32), 216),
                        mm_shuffle_epi32(LoadBytes(block, 48), 216)),
      mm_unpackhi_epi64(mm_shuffle_epi32(LoadBytes(block, 32), 216),
                        mm_shuffle_epi32(LoadBytes(block, 48), 216))>>

\* _mm_or_si128(_mm_srli_epi32(xtg, r), _mm_slli_epi32(xtg, l))
OrShifts(xtg, r, l) == mm_or_si128(mm_srli_epi32(xtg, r), mm_slli_epi32(xtg, l))

\* the statements of g4!, on v = <<xv0, xv1, xv2, xv3>>
g4_add_msg(v, x) == [v EXCEPT ![1] = mm_add_epi32(v[1], mm_add_epi32(v[2], x))]
g4_add(v) == [v EXCEPT ![3] = mm_add_epi32(v[3], v[4])]
g4_xv1(v, r, l) == [v EXCEPT ![2] = OrShifts(mm_xor_si128(v[2], v[3]), r, l)]
g4_xv3_shuffle(v, b) ==
    [v EXCEPT ![4] = mm_shuffle_epi8(mm_xor_si128(v[1], v[4]), b)]
g4_xv3_shifts(v, r, l) ==
    [v EXCEPT ![4] = OrShifts(mm_xor_si128(v[1], v[4]), r, l)]

\* g4! of the AVX2 body
avx2_g4(v, xx, xy) ==
    g4_xv1(g4_add(g4_xv3_shuffle(g4_add_msg(
    g4_xv1(g4_add(g4_xv3_shuffle(g4_add_msg(v, xx), xror16)), 12, 20),
    xy), xror8)), 7, 25)

\* g4! of the SSE2 body
sse2_g4(v, xx, xy) ==
    g4_xv1(g4_add(g4_xv3_shifts(g4_add_msg(
    g4_xv1(g4_add(g4_xv3_shifts(g4_add_msg(v, xx), 16, 16)), 12, 20),
    xy), 8, 24)), 7, 25)

\* the three _mm_shuffle_epi32 with the constants of xv1 and xv3 exchanged
Diagonal_reversed(v, i1, i2, i3) ==
    <<v[1], mm_shuffle_epi32(v[2], i3), mm_shuffle_epi32(v[3], i2),
      mm_shuffle_epi32(v[4], i1)>>

\* the three _mm_shuffle_epi32 that follow a g4! in rr!
Diagonal(v, i1, i2, i3) ==
    <<v[1], mm_shuffle_epi32(v[2], i1), mm_shuffle_epi32(v[3], i2),
      mm_shuffle_epi32(v[4], i3)>>

\* rr! of the AVX2 body and of the SSE2 body, m = <<i0, i1, i2, i3>>
avx2_rr(v, m) ==
    Diagonal(avx2_g4(Diagonal(avx2_g4(v, m[1], m[2]), 57, 78, 147),
                     m[3], m[4]), 147, 78, 57)

sse2_rr(v, m) ==
    Diagonal(sse2_g4(Diagonal(sse2_g4(v, m[1], m[2]), 57, 78, 147),
                     m[3], m[4]), 147, 78, 57)

\* round 1: <<xn0, xn1, xn2, xn3>> from the vectors of round 0
avx2_m1(xm0, xm1, xm2, xm3) ==
    LET xt0 == mm_shuffle_epi32(xm0, 0)
        xt1 == mm_shuffle_epi32(xm0, 200)
        xt2 == mm_shuffle_epi32(xm1, 112)
        xt3 == mm_shuffle_epi32(xm1, 128)
        xt4 == mm_shuffle_epi32(xm2, 1)
        xt5 == mm_shuffle_epi32(xm2, 2)
        xt6 == mm_shuffle_epi32(xm2, 3)
        xt7 == mm_shuffle_epi32(xm3, 128)
        xt8 == mm_shuffle_epi32(xm3, 16)
        xt9 == mm_shuffle_epi32(xm3, 48)
    IN  <<mm_blend_epi32(mm_blend_epi32(xt6, xt1, 2), xt7, 12),
          mm_blend_epi32(mm_blend_epi32(xt4, xt9, 4), xt1, 8),
          mm_blend_epi32(mm_blend_epi32(xt3, xt0, 2), xt8, 4),
          mm_blend_epi32(mm_blend_epi32(xt5, xm0, 2), xt2, 12)>>

\* round 2: <<xm0, xm1, xm2, xm3>> from the vectors of round 1
avx2_m2(xn0, xn1, xn2, xn3) ==
    LET xt0 == mm_shuffle_epi32(xn0, 64)
        xt1 == mm_shuffle_epi32(xn0, 128)
        xt2 == mm_shuffle_epi32(xn1, 128)
        xt3 == mm_shuffle_epi32(xn1, 13)
        xt4 == mm_shuffle_epi32(xn2, 4)
        xt5 == mm_shuffle_epi32(xn2, 50)
        xt6 == mm_shuffle_epi32(xn3, 16)
        xt7 == mm_shuffle_epi32(xn3, 44)
    IN  <<mm_blend_epi32(mm_blend_epi32(xt5, xt6, 2), xt2, 8),
          mm_blend_epi32(mm_blend_epi32(xt3, xt4, 2), mm_blend_epi32(xt6,
              xn0, 8), 12),
          mm_blend_epi32(mm_blend_epi32(xt2, xt7, 6), xt1, 8),
          mm_blend_epi32(mm_blend_epi32(xt0, xt3, 2), xt4, 4)>>

\* round 3: <<xn0, xn1, xn2, xn3>> from the vectors of round 2
avx2_m3(xm0, xm1, xm2, xm3) ==
    LET xt0 == mm_shuffle_epi32(xm0, 16)
        xt1 == mm_shuffle_epi32(xm0, 200)
        xt2 == mm_shuffle_epi32(xm1, 16)
        xt3 == mm_shuffle_epi32(xm1, 50)
        xt4 == mm_shuffle_epi32(xm2, 3)
        xt5 == mm_shuffle_epi32(xm2, 6)
        xt6 == mm_shuffle_epi32(xm3, 57)
    IN  <<mm_blend_epi32(mm_blend_epi32(xt5, xt3, 4), xt0, 8),
          mm_blend_epi32(mm_blend_epi32(xt4, xt6, 10), xt0, 4),
          mm_blend_epi32(mm_blend_epi32(xt3, xt1, 10), xt6, 4),
          mm_blend_epi32(mm_blend_epi32(xt6, xt4, 2), xt2, 12)>>

\* round 4: <<xm0, xm1, xm2, xm3>> from the vectors of round 3
avx2_m4(xn0, xn1, xn2, xn3) ==
    LET xt0 == mm_shuffle_epi32(xn0, 128)
        xt1 == mm_shuffle_epi32(xn0, 76)
        xt2 == mm_shuffle_epi32(xn1, 9)
        xt3 == mm_shuffle_epi32(xn1, 3)
        xt4 == mm_shuffle_epi32(xn2, 4)
        xt5 == mm_shuffle_epi32(xn3, 64)
        xt6 == mm_shuffle_epi32(xn3, 50)
    IN  <<mm_blend_epi32(mm_blend_epi32(xn1, xt4, 6), xt5, 8),
          mm_blend_epi32(mm_blend_epi32(xt6, xt0, 2), xn2, 12),
          mm_blend_epi32(mm_blend_epi32(xt3, xt1, 10), xt5, 4),
          mm_blend_epi32(mm_blend_epi32(xt2, xt6, 4), xt0, 8)>>

\* round 5: <<xn0, xn1, xn2, xn3>> from the vectors of round 4
avx2_m5(xm0, xm1, xm2, xm3) ==
    LET xt0 == mm_shuffle_epi32(xm0, 4)
        xt1 == mm_shuffle_epi32(xm0, 14)
        xt2 == mm_shuffle_epi32(xm1, 4)
        xt3 == mm_shuffle_epi32(xm1, 50)
        xt4 == mm_shuffle_epi32(xm2, 8)
        xt5 == mm_shuffle_epi32(xm2, 208)
        xt6 == mm_shuffle_epi32(xm3, 1)
        xt7 == mm_shuffle_epi32(xm3, 131)
    IN  <<mm_blend_epi32(mm_blend_epi32(xt1, xt4, 2), mm_blend_epi32(xt2,
              xt7, 8), 12),
          mm_blend_epi32(mm_blend_epi32(xt6, xt1, 2), xt5, 12),
          mm_blend_epi32(mm_blend_epi32(xt3, xt2, 2), xt6, 8),
          mm_blend_epi32(mm_blend_epi32(xt7, xt0, 10), xt4, 4)>>

\* round 6: <<xm0, xm1, xm2, xm3>> from the vectors of round 5
avx2_m6(xn0, xn1, xn2, xn3) ==
    LET xt0 == mm_shuffle_epi32(xn0, 198)
        xt1 == mm_shuffle_epi32(xn1, 64)
        xt2 == mm_shuffle_epi32(xn1, 140)
        xt3 == mm_shuffle_epi32(xn2, 9)
        xt4 == mm_shuffle_epi32(xn2, 12)
        xt5 == mm_shuffle_epi32(xn3, 1)
        xt6 == mm_shuffle_epi32(xn3, 48)
    IN  <<mm_blend_epi32(mm_blend_epi32(xt1, xt4, 10), xn3, 4),
          mm_blend_epi32(mm_blend_epi32(xt5, xt3, 2), xt1, 8),
          mm_blend_epi32(xt0, xt6, 4),
          mm_blend_epi32(mm_blend_epi32(xt3, xt2, 10), xt0, 4)>>

\* round 7: <<xn0, xn1, xn2, xn3>> from the vectors of round 6
avx2_m7(xm0, xm1, xm2, xm3) ==
    LET xt0 == mm_shuffle_epi32(xm0, 12)
        xt1 == mm_shuffle_epi32(xm0, 24)
        xt2 == mm_shuffle_epi32(xm1, 194)
        xt3 == mm_shuffle_epi32(xm2, 16)
        xt4 == mm_shuffle_epi32(xm2, 176)
        xt5 == mm_shuffle_epi32(xm3, 64)
        xt6 == mm_shuffle_epi32(xm3, 131)
    IN  <<mm_blend_epi32(mm_blend_epi32(xt2, xt5, 10), xt0, 4),
          mm_blend_epi32(mm_blend_epi32(xt6, xt1, 6), xt4, 8),
          mm_blend_epi32(mm_blend_epi32(xm1, xt4, 4), xt6, 8),
          mm_blend_epi32(mm_blend_epi32(xt3, xt0, 2), xt2, 8)>>

\* round 8: <<xm0, xm1, xm2, xm3>> from the vectors of round 7
avx2_m8(xn0, xn1, xn2, xn3) ==
    LET xt0 == mm_shuffle_epi32(xn0, 2)
        xt1 == mm_shuffle_epi32(xn0, 52)
        xt2 == mm_shuffle_epi32(xn1, 12)
        xt3 == mm_shuffle_epi32(xn2, 3)
        xt4 == mm_shuffle_epi32(xn2, 129)
        xt5 == mm_shuffle_epi32(xn3, 2)
        xt6 == mm_shuffle_epi32(xn3, 208)
    IN  <<mm_blend_epi32(mm_blend_epi32(xt5, xn1, 2), xt2, 4),
          mm_blend_epi32(mm_blend_epi32(xt4, xt2, 2), xt1, 4),
          mm_blend_epi32(mm_blend_epi32(xt0, xn1, 4), xt6, 8),
          mm_blend_epi32(mm_blend_epi32(xt3, xt1, 2), xt6, 4)>>

\* round 9: <<xn0, xn1, xn2, xn3>> from the vectors of round 8
avx2_m9(xm0, xm1, xm2, xm3) ==
    LET xt0 == mm_shuffle_epi32(xm0, 198)
        xt1 == mm_shuffle_epi32(xm1, 44)
        xt2 == mm_shuffle_epi32(xm2, 64)
        xt3 == mm_shuffle_epi32(xm2, 131)
        xt4 == mm_shuffle_epi32(xm3, 216)
    IN  <<mm_blend_epi32(mm_blend_epi32(xt3, xt1, 2), xt4, 4),
          mm_blend_epi32(xt4, xt0, 4),
          mm_blend_epi32(mm_blend_epi32(xm1, xt1, 4), xt2, 8),
          mm_blend_epi32(xt0, xt2, 4)>>

\* round 1: <<xn0, xn1, xn2, xn3>> from the vectors of round 0
sse2_m1(xm0, xm1, xm2, xm3) ==
    LET xt0 == mm_shuffle_epi32(xm0, 0)
        xt1 == mm_shuffle_epi32(xm0, 200)
        xt2 == mm_shuffle_epi32(xm1, 112)
        xt3 == mm_shuffle_epi32(xm1, 128)
        xt4 == mm_shuffle_epi32(xm2, 1)
        xt5 == mm_shuffle_epi32(xm2, 2)
        xt6 == mm_shuffle_epi32(xm2, 3)
        xt7 == mm_shuffle_epi32(xm3, 128)
        xt8 == mm_shuffle_epi32(xm3, 16)
        xt9 == mm_shuffle_epi32(xm3, 48)
    IN  <<mm_or_si128(mm_or_si128(mm_and_si128(xz1, xt6), mm_and_si128(xz2,
              xt1)), mm_andnot_si128(xz3, xt7)),
          mm_or_si128(mm_or_si128(mm_and_si128(xz3, xt4), mm_and_si128(xz4,
              xt9)), mm_andnot_si128(xz7, xt1)),
          mm_or_si128(mm_or_si128(mm_andnot_si128(xz6, xt3),
              mm_and_si128(xz2, xt0)), mm_and_si128(xz4, xt8)),
          mm_or_si128(mm_or_si128(mm_and_si128(xz1, xt5), mm_and_si128(xz2,
              xm0)), mm_andnot_si128(xz3, xt2))>>

\* round 2: <<xm0, xm1, xm2, xm3>> from the vectors of round 1
sse2_m2(xn0, xn1, xn2, xn3) ==
    LET xt0 == mm_shuffle_epi32(xn0, 64)
        xt1 == mm_shuffle_epi32(xn0, 128)
        xt2 == mm_shuffle_epi32(xn1, 128)
        xt3 == mm_shuffle_epi32(xn1, 13)
        xt4 == mm_shuffle_epi32(xn2, 4)
        xt5 == mm_shuffle_epi32(xn2, 50)
        xt6 == mm_shuffle_epi32(xn3, 16)
        xt7 == mm_shuffle_epi32(xn3, 44)
    IN  <<mm_or_si128(mm_or_si128(mm_and_si128(xz5, xt5), mm_and_si128(xz2,
              xt6)), mm_andnot_si128(xz7, xt2)),
          mm_or_si128(mm_or_si128(mm_and_si128(xz1, xt3), mm_and_si128(xz2,
              xt4)), mm_or_si128(mm_and_si128(xz4, xt6),
              mm_andnot_si128(xz7, xn0))),
          mm_or_si128(mm_or_si128(mm_and_si128(xz1, xt2), mm_and_si128(xz6,
              xt7)), mm_andnot_si128(xz7, xt1)),
          mm_or_si128(mm_or_si128(mm_andnot_si128(xz6, xt0),
              mm_and_si128(xz2, xt3)), mm_and_si128(xz4, xt4))>>

\* round 3: <<xn0, xn1, xn2, xn3>> from the vectors of round 2
sse2_m3(xm0, xm1, xm2, xm3) ==
    LET xt0 == mm_shuffle_epi32(xm0, 16)
        xt1 == mm_shuffle_epi32(xm0, 200)
        xt2 == mm_shuffle_epi32(xm1, 16)
        xt3 == mm_shuffle_epi32(xm1, 50)
        xt4 == mm_shuffle_epi32(xm2, 3)
        xt5 == mm_shuffle_epi32(xm2, 6)
        xt6 == mm_shuffle_epi32(xm3, 57)
    IN  <<mm_or_si128(mm_or_si128(mm_and_si128(xz3, xt5), mm_and_si128(xz4,
              xt3)), mm_andnot_si128(xz7, xt0)),
          mm_or_si128(mm_or_si128(mm_and_si128(xz1, xt4),
              mm_andnot_si128(xz5, xt6)), mm_and_si128(xz4, xt0)),
          mm_or_si128(mm_or_si128(mm_and_si128(xz1, xt3),
              mm_andnot_si128(xz5, xt1)), mm_and_si128(xz4, xt6)),
          mm_or_si128(mm_or_si128(mm_and_si128(xz1, xt6), mm_and_si128(xz2,
              xt4)), mm_andnot_si128(xz3, xt2))>>

\* round 4: <<xm0, xm1, xm2, xm3>> from the vectors of round 3
sse2_m4(xn0, xn1, xn2, xn3) ==
    LET xt0 == mm_shuffle_epi32(xn0, 128)
        xt1 == mm_shuffle_epi32(xn0, 76)
        xt2 == mm_shuffle_epi32(xn1, 9)
        xt3 == mm_shuffle_epi32(xn1, 3)
        xt4 == mm_shuffle_epi32(xn2, 4)
        xt5 == mm_shuffle_epi32(xn3, 64)
        xt6 == mm_shuffle_epi32(xn3, 50)
    IN  <<mm_or_si128(mm_or_si128(mm_and_si128(xz1, xn1), mm_and_si128(xz6,
              xt4)), mm_andnot_si128(xz7, xt5)),
          mm_or_si128(mm_or_si128(mm_and_si128(xz1, xt6), mm_and_si128(xz2,
              xt0)), mm_andnot_si128(xz3, xn2)),
          mm_or_si128(mm_or_si128(mm_and_si128(xz1, xt3),
              mm_andnot_si128(xz5, xt1)), mm_and_si128(xz4, xt5)),
          mm_or_si128(mm_or_si128(mm_and_si128(xz3, xt2), mm_and_si128(xz4,
              xt6)), mm_andnot_si128(xz7, xt0))>>

\* round 5: <<xn0, xn1, xn2, xn3>> from the vectors of round 4
sse2_m5(xm0, xm1, xm2, xm3) ==
    LET xt0 == mm_shuffle_epi32(xm0, 4)
        xt1 == mm_shuffle_epi32(xm0, 14)
        xt2 == mm_shuffle_epi32(xm1, 4)
        xt3 == mm_shuffle_epi32(xm1, 50)
        xt4 == mm_shuffle_epi32(xm2, 8)
        xt5 == mm_shuffle_epi32(xm2, 208)
        xt6 == mm_shuffle_epi32(xm3, 1)
        xt7 == mm_shuffle_epi32(xm3, 131)
    IN  <<mm_or_si128(mm_or_si128(mm_and_si128(xz1, xt1), mm_and_si128(xz2,
              xt4)), mm_or_si128(mm_and_si128(xz4, xt2),
              mm_andnot_si128(xz7, xt7))),
          mm_or_si128(mm_or_si128(mm_and_si128(xz1, xt6), mm_and_si128(xz2,
              xt1)), mm_andnot_si128(xz3, xt5)),
          mm_or_si128(mm_or_si128(mm_and_si128(xz5, xt3), mm_and_si128(xz2,
              xt2)), mm_andnot_si128(xz7, xt6)),
          mm_or_si128(mm_or_si128(mm_and_si128(xz1, xt7),
              mm_andnot_si128(xz5, xt0)), mm_and_si128(xz4, xt4))>>

\* round 6: <<xm0, xm1, xm2, xm3>> from the vectors of round 5
sse2_m6(xn0, xn1, xn2, xn3) ==
    LET xt0 == mm_shuffle_epi32(xn0, 198)
        xt1 == mm_shuffle_epi32(xn1, 64)
        xt2 == mm_shuffle_epi32(xn1, 140)
        xt3 == mm_shuffle_epi32(xn2, 9)
        xt4 == mm_shuffle_epi32(xn2, 12)
        xt5 == mm_shuffle_epi32(xn3, 1)
        xt6 == mm_shuffle_epi32(xn3, 48)
    IN  <<mm_or_si128(mm_or_si128(mm_and_si128(xz1, xt1),
              mm_andnot_si128(xz5, xt4)), mm_and_si128(xz4, xn3)),
          mm_or_si128(mm_or_si128(mm_and_si128(xz5, xt5), mm_and_si128(xz2,
              xt3)), mm_andnot_si128(xz7, xt1)),
          mm_or_si128(mm_andnot_si128(xz4, xt0), mm_and_si128(xz4, xt6)),
          mm_or_si128(mm_or_si128(mm_and_si128(xz1, xt3),
              mm_andnot_si128(xz5, xt2)), mm_and_si128(xz4, xt0))>>

\* round 7: <<xn0, xn1, xn2, xn3>> from the vectors of round 6
sse2_m7(xm0, xm1, xm2, xm3) ==
    LET xt0 == mm_shuffle_epi32(xm0, 12)
        xt1 == mm_shuffle_epi32(xm0, 24)
        xt2 == mm_shuffle_epi32(xm1, 194)
        xt3 == mm_shuffle_epi32(xm2, 16)
        xt4 == mm_shuffle_epi32(xm2, 176)
        xt5 == mm_shuffle_epi32(xm3, 64)
        xt6 == mm_shuffle_epi32(xm3, 131)
    IN  <<mm_or_si128(mm_or_si128(mm_and_si128(xz1, xt2),
              mm_andnot_si128(xz5, xt5)), mm_and_si128(xz4, xt0)),
          mm_or_si128(mm_or_si128(mm_and_si128(xz1, xt6), mm_and_si128(xz6,
              xt1)), mm_andnot_si128(xz7, xt4)),
          mm_or_si128(mm_or_si128(mm_and_si128(xz3, xm1), mm_and_si128(xz4,
              xt4)), mm_andnot_si128(xz7, xt6)),
          mm_or_si128(mm_or_si128(mm_and_si128(xz5, xt3), mm_and_si128(xz2,
              xt0)), mm_andnot_si128(xz7, xt2))>>

\* round 8: <<xm0, xm1, xm2, xm3>> from the vectors of round 7
sse2_m8(xn0, xn1, xn2, xn3) ==
    LET xt0 == mm_shuffle_epi32(xn0, 2)
        xt1 == mm_shuffle_epi32(xn0, 52)
        xt2 == mm_shuffle_epi32(xn1, 12)
        xt3 == mm_shuffle_epi32(xn2, 3)
        xt4 == mm_shuffle_epi32(xn2, 129)
        xt5 == mm_shuffle_epi32(xn3, 2)
        xt6 == mm_shuffle_epi32(xn3, 208)
    IN  <<mm_or_si128(mm_or_si128(mm_andnot_si128(xz6, xt5),
              mm_and_si128(xz2, xn1)), mm_and_si128(xz4, xt2)),
          mm_or_si128(mm_or_si128(mm_andnot_si128(xz6, xt4),
              mm_and_si128(xz2, xt2)), mm_and_si128(xz4, xt1)),
          mm_or_si128(mm_or_si128(mm_and_si128(xz3, xt0), mm_and_si128(xz4,
              xn1)), mm_andnot_si128(xz7, xt6)),
          mm_or_si128(mm_or_si128(mm_andnot_si128(xz6, xt3),
              mm_and_si128(xz2, xt1)), mm_and_si128(xz4, xt6))>>

\* round 9: <<xn0, xn1, xn2, xn3>> from the vectors of round 8
sse2_m9(xm0, xm1, xm2, xm3) ==
    LET xt0 == mm_shuffle_epi32(xm0, 198)
        xt1 == mm_shuffle_epi32(xm1, 44)
        xt2 == mm_shuffle_epi32(xm2, 64)
        xt3 == mm_shuffle_epi32(xm2, 131)
        xt4 == mm_shuffle_epi32(xm3, 216)
    IN  <<mm_or_si128(mm_or_si128(mm_andnot_si128(xz6, xt3),
              mm_and_si128(xz2, xt1)), mm_and_si128(xz4, xt4)),
          mm_or_si128(mm_andnot_si128(xz4, xt4), mm_and_si128(xz4, xt0)),
          mm_or_si128(mm_or_si128(mm_and_si128(xz3, xm1), mm_and_si128(xz4,
              xt1)), mm_andnot_si128(xz7, xt2)),
          mm_or_si128(mm_andnot_si128(xz4, xt0), mm_and_si128(xz4, xt2))>>

\* the message vectors of round r from those of round r - 1
avx2_schedule(r, x) ==
    CASE r = 1 -> avx2_m1(x[1], x[2], x[3], x[4])
      [] r = 2 -> avx2_m2(x[1], x[2], x[3], x[4])
      [] r = 3 -> avx2_m3(x[1], x[2], x[3], x[4])
      [] r = 4 -> avx2_m4(x[1], x[2], x[3], x[4])
      [] r = 5 -> avx2_m5(x[1], x[2], x[3], x[4])
      [] r = 6 -> avx2_m6(x[1], x[2], x[3], x[4])
      [] r = 7 -> avx2_m7(x[1], x[2], x[3], x[4])
      [] r = 8 -> avx2_m8(x[1], x[2], x[3], x[4])
      [] r = 9 -> avx2_m9(x[1], x[2], x[3], x[4])

sse2_schedule(r, x) ==
    CASE r = 1 -> sse2_m1(x[1], x[2], x[3], x[4])
      [] r = 2 -> sse2_m2(x[1], x[2], x[3], x[4])
      [] r = 3 -> sse2_m3(x[1], x[2], x[3], x[4])
      [] r = 4 -> sse2_m4(x[1], x[2], x[3], x[4])
      [] r = 5 -> sse2_m5(x[1], x[2], x[3], x[4])
      [] r = 6 -> sse2_m6(x[1], x[2], x[3], x[4])
      [] r = 7 -> sse2_m7(x[1], x[2], x[3], x[4])
      [] r = 8 -> sse2_m8(x[1], x[2], x[3], x[4])
      [] r = 9 -> sse2_m9(x[1], x[2], x[3], x[4])

\* rounds r .. 9 applied to v, x being the message vectors of round r (the
\* tests on Len make TLC evaluate each round's vectors before the next one)
RECURSIVE avx2_rounds(_, _, _)
avx2_rounds(v, x, r) ==
    IF Len(v) # 4 \/ Len(x) # 4 THEN v
    ELSE IF r = 9 THEN avx2_rr(v, x)
    ELSE avx2_rounds(avx2_rr(v, x), avx2_schedule(r + 1, x), r + 1)

RECURSIVE sse2_rounds(_, _, _)
sse2_rounds(v, x, r) ==
    IF Len(v) # 4 \/ Len(x) # 4 THEN v
    ELSE IF r = 9 THEN sse2_rr(v, x)
    ELSE sse2_rounds(sse2_rr(v, x), sse2_schedule(r + 1, x), r + 1)

\* _mm_storeu_si128 of xh0 and xh1 to h[0..4] and h[4..8]
VectorStore(xh0, xh1) == [i \in 0..7 |-> IF i < 4 THEN xh0[i + 1] ELSE xh1[i - 3]]

\* xh0 ^ (xv0 ^ xv2) and xh1 ^ (xv1 ^ xv3), stored to h
VectorFold(h, v) ==
    VectorStore(mm_xor_si128(LoadWords(h, 0), mm_xor_si128(v[1], v[3])),
                mm_xor_si128(LoadWords(h, 4), mm_xor_si128(v[2], v[4])))

\* Blake2s::process_block, x86_64 with AVX2: the new value of h
process_block_avx2(h, block, ctr, last) ==
    VectorFold(h, avx2_rounds(VectorInit(h, ctr, last), VectorLoad(block), 0))

\* Blake2s::process_block, x86_64 without AVX2 (SSE2): the new value of h
process_block_sse2(h, block, ctr, last) ==
    VectorFold(h, sse2_rounds(VectorInit(h, ctr, last), VectorLoad(block), 0))

----------------------------------------------------------------------------
(* Byte slices are sequences; index i of the source is index i + 1 here.   *)

\* [0u8; n]
Zeros(n) == [i \in 1..n |-> 0]

\* &s[a..b]
Slice(s, a, b) == SubSeq(s, a + 1, b)

\* dst[a..b].copy_from_slice(src) panics unless the range lies in dst and
\* the two lengths are equal
CopyFits(dst, a, b, src) == a <= b /\ b <= Len(dst) /\ Len(src) = b - a

\* dst after dst[a..b].copy_from_slice(src)
copy_from_slice(dst, a, b, src) ==
    SubSeq(dst, 1, a) \o src \o SubSeq(dst, b + 1, Len(dst))

----------------------------------------------------------------------------
(* Blake2s: a context is a record [h, buf, ctr, out_len]; the operations   *)
(* below add three observation fields: calls, the process_block            *)
(* invocations made so far (block, ctr, last, and the function that made   *)
(* the call); r, the array returned by the last inner_finalize; and ok,    *)
(* FALSE once a call has panicked.                                         *)

\* a call of Self::process_block(&mut self.h, block, ctr, last) made by `by`
Compress(c, block, ctr, last, by) ==
    [c EXCEPT !.h = process_block(c.h, block, ctr, last),
              !.calls = Append(@, [block |-> block, ctr |-> ctr,
                                   last |-> last, by |-> by])]

\* a failed assert! or a panicking slice operation: the call unwinds with
\* the context as it is at that point
Panic(c) == [c EXCEPT !.ok = FALSE]

\* Blake2s::new, for 1 <= out_len <= 32
Blake2s_new(out_len) ==
    [h       |-> [IV EXCEPT ![0] = Xor32(@, Xor32(<<\H0101, 0>>, U32(out_len)))],
     buf     |-> Zeros(BUF_LEN),
     ctr     |-> U64(0),
     out_len |-> out_len,
     calls   |-> <<>>,
     r       |-> <<>>,
     ok      |-> TRUE]

\* the assertion of Blake2s::new without its lower bound
Blake2s_new_ok_no_lower(out_len) == out_len <= 32

\* the assertion of Blake2s::new
Blake2s_new_ok(out_len) == 1 <= out_len /\ out_len <= 32

\* the loop of Blake2s::update passing the counter as it was before the block
RECURSIVE update_loop_stale(_, _, _)
update_loop_stale(c, data, j) ==
    IF j < Len(data)
    THEN LET clen == Len(data) - j
         IN  IF clen <= BUF_LEN
             THEN [c EXCEPT !.buf = copy_from_slice(@, 0, clen,
                                                    Slice(data, j, Len(data))),
                            !.ctr = U64Add(@, clen)]
             ELSE LET ctr1 == U64Add(c.ctr, BUF_LEN)
                      j2   == j + BUF_LEN
                  IN  update_loop_stale(
                          Compress([c EXCEPT !.ctr = ctr1],
                                   Slice(data, j, j2), c.ctr, FALSE, "update"),
                          data, j2)
    ELSE c

\* Blake2s::update, the loop "Process all subsequent full blocks, except the
\* last", entered with index j
RECURSIVE update_loop(_, _, _)
update_loop(c, data, j) ==
    IF j < Len(data)
    THEN LET clen == Len(data) - j
         IN  IF clen <= BUF_LEN
             THEN [c EXCEPT !.buf = copy_from_slice(@, 0, clen,
                                                    Slice(data, j, Len(data))),
                            !.ctr = U64Add(@, clen)]
             ELSE LET ctr1 == U64Add(c.ctr, BUF_LEN)
                      j2   == j + BUF_LEN
                  IN  update_loop(
                          Compress([c EXCEPT !.ctr = ctr1],
                                   Slice(data, j, j2), ctr1, FALSE, "update"),
                          data, j2)
    ELSE c

\* Blake2s::update without the early return on empty data
Blake2s_update_no_empty_return(c, data) ==
    IF c.ctr = POISON THEN Panic(c)
    ELSE LET p == c.ctr[1] % BUF_LEN
         IN  IF c.ctr = U64(0) \/ p # 0
             THEN LET clen == BUF_LEN - p
                  IN  IF clen >= Len(data)
                      THEN [c EXCEPT
                              !.buf = copy_from_slice(@, p, p + Len(data), data),
                              !.ctr = U64Add(@, Len(data))]
                      ELSE LET c1 == [c EXCEPT
                                        !.buf = copy_from_slice(@, p, BUF_LEN,
                                                    Slice(data, 0, clen)),
                                        !.ctr = U64Add(@, clen)]
                           IN  update_loop(
                                   Compress(c1, c1.buf, c1.ctr, FALSE, "update"),
                                   data, clen)
             ELSE update_loop(Compress(c, c.buf, c.ctr, FALSE, "update"),
                              data, 0)

\* Blake2s::update with `clen > data.len()` for `clen >= data.len()`: a block
\* is compressed as soon as it is full
Blake2s_update_eager(c, data) ==
    IF c.ctr = POISON THEN Panic(c)
    ELSE IF Len(data) = 0 THEN c
    ELSE LET p == c.ctr[1] % BUF_LEN
         IN  IF c.ctr = U64(0) \/ p # 0
             THEN LET clen == BUF_LEN - p
                  IN  IF clen > Len(data)
                      THEN [c EXCEPT
                              !.buf = copy_from_slice(@, p, p + Len(data), data),
                              !.ctr = U64Add(@, Len(data))]
                      ELSE LET c1 == [c EXCEPT
                                        !.buf = copy_from_slice(@, p, BUF_LEN,
                                                    Slice(data, 0, clen)),
                                        !.ctr = U64Add(@, clen)]
                           IN  update_loop(
                                   Compress(c1, c1.buf, c1.ctr, FALSE, "update"),
                                   data, clen)
             ELSE update_loop(Compress(c, c.buf, c.ctr, FALSE, "update"),
                              data, 0)

\* Blake2s::update without its assertion
Blake2s_update_unchecked(c, data) ==
    IF Len(data) = 0 THEN c
    ELSE LET p == c.ctr[1] % BUF_LEN
         IN  IF c.ctr = U64(0) \/ p # 0
             THEN LET clen == BUF_LEN - p
                  IN  IF clen >= Len(data)
                      THEN [c EXCEPT
                              !.buf = copy_from_slice(@, p, p + Len(data), data),
                              !.ctr = U64Add(@, Len(data))]
                      ELSE LET c1 == [c EXCEPT
                                        !.buf = copy_from_slice(@, p, BUF_LEN,
                                                    Slice(data, 0, clen)),
                                        !.ctr = U64Add(@, clen)]
                           IN  update_loop(
                                   Compress(c1, c1.buf, c1.ctr, FALSE, "update"),
                                   data, clen)
             ELSE update_loop(Compress(c, c.buf, c.ctr, FALSE, "update"),
                              data, 0)

\* Blake2s::update
Blake2s_update(c, data) ==
    IF c.ctr = POISON THEN Panic(c)
    ELSE IF Len(data) = 0 THEN c
    ELSE LET p == c.ctr[1] % BUF_LEN
         IN  IF c.ctr = U64(0) \/ p # 0
             THEN LET clen == BUF_LEN - p
                  IN  IF clen >= Len(data)
                      THEN [c EXCEPT
                              !.buf = copy_from_slice(@, p, p + Len(data), data),
                              !.ctr = U64Add(@, Len(data))]
                      ELSE LET c1 == [c EXCEPT
                                        !.buf = copy_from_slice(@, p, BUF_LEN,
                                                    Slice(data, 0, clen)),
                                        !.ctr = U64Add(@, clen)]
                           IN  update_loop(
                                   Compress(c1, c1.buf, c1.ctr, FALSE, "update"),
                                   data, clen)
             ELSE update_loop(Compress(c, c.buf, c.ctr, FALSE, "update"),
                              data, 0)

\* Blake2s::reset leaving buf as it is
Blake2s_reset_keep_buf(c) ==
    [c EXCEPT !.h = [IV EXCEPT ![0] = Xor32(@, Xor32(<<\H0101, 0>>,
                                                      U32(c.out_len)))],
              !.ctr = U64(0)]

\* Blake2s::reset
Blake2s_reset(c) ==
    [c EXCEPT !.h = [IV EXCEPT ![0] = Xor32(@, Xor32(<<\H0101, 0>>,
                                                      U32(c.out_len)))],
              !.buf = Zeros(BUF_LEN),
              !.ctr = U64(0)]

\* the 32 bytes r written out by inner_finalize from the state words
StateBytes(h) == [i \in 1..32 |-> to_le_byte(h[(i - 1) \div 4], (i - 1) % 4)]

\* inner_finalize without the padding of the current block
PadBlock_none(c) == c

\* inner_finalize, "Pad the current block with zeros, if not full"
PadBlock(c) ==
    LET p == c.ctr[1] % BUF_LEN
    IN  IF c.ctr = U64(0) \/ p # 0
        THEN [c EXCEPT !.buf = copy_from_slice(@, p, BUF_LEN,
                                   Slice(Zeros(BUF_LEN), p, BUF_LEN))]
        ELSE c

\* inner_finalize, "Write out the result" and "Tag the context as unusable
\* until next reset"
WriteResult(c) == [c EXCEPT !.r = StateBytes(c.h), !.ctr = POISON]

\* Blake2s::inner_finalize passing last = false
inner_finalize_not_last(c) ==
    IF c.ctr = POISON THEN Panic(c)
    ELSE CHOOSE r \in {WriteResult(d)
                         : d \in {Compress(p, p.buf, p.ctr, FALSE,
                                           "inner_finalize")
                                  : p \in {PadBlock(c)}}} : TRUE

\* Blake2s::inner_finalize: the context afterwards, with the returned array
\* in r
inner_finalize(c) ==
    IF c.ctr = POISON THEN Panic(c)
    ELSE CHOOSE r \in {WriteResult(d)
                         : d \in {Compress(p, p.buf, p.ctr, TRUE,
                                           "inner_finalize")
                                  : p \in {PadBlock(c)}}} : TRUE

\* reset() after inner_finalize has left context c
ResetAfter(c) == IF c.ok THEN Blake2s_reset(c) ELSE c

\* Blake2s::inner_finalize_reset: the context afterwards, with the returned
\* array in r
inner_finalize_reset(c) ==
    CHOOSE r \in {ResetAfter(d) : d \in {inner_finalize(c)}} : TRUE

\* the result of a call that writes to a caller's slice: the context, the
\* slice afterwards and the value returned (<<>> when the call panicked)
Outcome(c, out, ret) == [c |-> c, out |-> out, ret |-> ret]

\* the copy into out taking all 32 bytes of r
WriteOut_whole(c, out) ==
    IF ~c.ok THEN Outcome(c, out, <<>>)
    ELSE Outcome(c, copy_from_slice(out, 0, 32, c.r), <<c.out_len>>)

\* out[..self.out_len].copy_from_slice(&r[..self.out_len]); self.out_len
\* where c is the context after the inner_finalize[_reset] that returned r
WriteOut(c, out) ==
    IF ~c.ok THEN Outcome(c, out, <<>>)
    ELSE Outcome(c,
                 copy_from_slice(out, 0, c.out_len, Slice(c.r, 0, c.out_len)),
                 <<c.out_len>>)

\* Blake2s::finalize_write.  The receiver out[..self.out_len] is evaluated
\* (and bounds-checked) before the argument self.inner_finalize().
Blake2s_finalize_write(c, out) ==
    IF c.out_len > Len(out) THEN Outcome(Panic(c), out, <<>>)
    ELSE CHOOSE r \in {WriteOut(d, out) : d \in {inner_finalize(c)}} : TRUE

\* Blake2s::finalize_reset_write
Blake2s_finalize_reset_write(c, out) ==
    IF c.out_len > Len(out) THEN Outcome(Panic(c), out, <<>>)
    ELSE CHOOSE r \in {WriteOut(d, out) : d \in {inner_finalize_reset(c)}} : TRUE

\* Blake2s::hash_into: the caller's slice afterwards
Blake2s_hash_into(out_len, data, out) ==
    Blake2s_finalize_write(Blake2s_update(Blake2s_new(out_len), data), out).out

----------------------------------------------------------------------------
(* KeyedBlake2s: a record [ctx, saved_key, saved_key_len]                   *)

\* the assertions of KeyedBlake2s::new (its own, then that of Blake2s::new)
KeyedBlake2s_new_ok(out_len, key) == Len(key) <= 32 /\ Blake2s_new_ok(out_len)

\* KeyedBlake2s::new with the key length XORed in unshifted
KeyedBlake2s_new_unshifted(out_len, key) ==
    LET ctx == Blake2s_new(out_len)
        saved_key_len == Len(key)
    IN  IF saved_key_len > 0
        THEN [ctx |-> [ctx EXCEPT
                         !.h[0] = Xor32(@, U32(saved_key_len)),
                         !.buf = copy_from_slice(@, 0, saved_key_len, key),
                         !.ctr = U64(BUF_LEN)],
              saved_key |-> copy_from_slice(Zeros(32), 0, saved_key_len, key),
              saved_key_len |-> saved_key_len]
        ELSE [ctx |-> ctx, saved_key |-> Zeros(32),
              saved_key_len |-> saved_key_len]

\* KeyedBlake2s::new without the test `saved_key_len > 0`
KeyedBlake2s_new_unconditional(out_len, key) ==
    LET ctx == Blake2s_new(out_len)
        saved_key_len == Len(key)
    IN  [ctx |-> [ctx EXCEPT
                    !.h[0] = Xor32(@, U32(256 * saved_key_len)),
                    !.buf = copy_from_slice(@, 0, saved_key_len, key),
                    !.ctr = U64(BUF_LEN)],
         saved_key |-> copy_from_slice(Zeros(32), 0, saved_key_len, key),
         saved_key_len |-> saved_key_len]

\* KeyedBlake2s::new, when the assertions hold
KeyedBlake2s_new(out_len, key) ==
    LET ctx == Blake2s_new(out_len)
        saved_key_len == Len(key)
    IN  IF saved_key_len > 0
        THEN [ctx |-> [ctx EXCEPT
                         !.h[0] = Xor32(@, U32(256 * saved_key_len)),
                         !.buf = copy_from_slice(@, 0, saved_key_len, key),
                         !.ctr = U64(BUF_LEN)],
              saved_key |-> copy_from_slice(Zeros(32), 0, saved_key_len, key),
              saved_key_len |-> saved_key_len]
        ELSE [ctx |-> ctx, saved_key |-> Zeros(32),
              saved_key_len |-> saved_key_len]

\* a keyed reset that starts an unkeyed hash and forgets the length of the key
KeyedBlake2s_reset_forget(k) ==
    [k EXCEPT !.ctx = Blake2s_reset(k.ctx), !.saved_key_len = 0]

\* KeyedBlake2s::reset.  The source slice of the copy is the whole 32-byte
\* saved_key array.
KeyedBlake2s_reset(k) ==
    LET c1 == Blake2s_reset(k.ctx)
    IN  IF k.saved_key_len > 0
        THEN LET c2 == [c1 EXCEPT
                          !.h[0] = Xor32(@, U32(256 * k.saved_key_len))]
             IN  IF CopyFits(c2.buf, 0, k.saved_key_len, k.saved_key)
                 THEN [k EXCEPT !.ctx =
                         [c2 EXCEPT
                            !.buf = copy_from_slice(@, 0, k.saved_key_len,
                                                    k.saved_key),
                            !.ctr = U64(BUF_LEN)]]
                 ELSE [k EXCEPT !.ctx = Panic(c2)]
        ELSE [k EXCEPT !.ctx = c1]

\* the end of KeyedBlake2s::finalize_reset_write: r is returned if
\* self.reset() returned, leaving k1
KeyedReturn(k1, f) ==
    [k |-> k1, out |-> f.out, ret |-> IF k1.ctx.ok THEN f.ret ELSE <<>>]

\* the end of KeyedBlake2s::finalize_reset_write calling self.ctx.reset()
KeyedResetAfter_inner(k, f) ==
    IF ~f.c.ok THEN [k |-> [k EXCEPT !.ctx = f.c], out |-> f.out, ret |-> <<>>]
    ELSE KeyedReturn([k EXCEPT !.ctx = Blake2s_reset(f.c)], f)

\* KeyedBlake2s::finalize_reset_write after its finalize_write gave f:
\* self.reset(); r
KeyedResetAfter(k, f) ==
    IF ~f.c.ok THEN [k |-> [k EXCEPT !.ctx = f.c], out |-> f.out, ret |-> <<>>]
    ELSE KeyedReturn(KeyedBlake2s_reset([k EXCEPT !.ctx = f.c]), f)

\* KeyedBlake2s::finalize_reset_write: the keyed context, the slice and the
\* value returned
KeyedBlake2s_finalize_reset_write(k, out) ==
    CHOOSE r \in {KeyedResetAfter(k, f)
                     : f \in {Blake2s_finalize_write(k.ctx, out)}} : TRUE

\* KeyedBlake2s::hash_into: the caller's slice afterwards
KeyedBlake2s_hash_into(out_len, key, data, out) ==
    Blake2s_finalize_write(
        Blake2s_update(KeyedBlake2s_new(out_len, key).ctx, data), out).out

----------------------------------------------------------------------------
(* The state machine: one context and the calls a program makes on it.     *)

\* most update calls since the last new/reset, and most bytes they pass
MaxUpdates == 2
MaxStream == 130

\* output lengths and key lengths tried by the constructors
OutLens == {0, 20, 33}
KeyLens == {0, 1, 32, 33}

\* lengths of the data passed to one update call
Lens == {0, 1, 63, 64, 65, 129}

\* first byte of the data of an update call
Fills == {97}

\* the key of n bytes 00 01 02 ..
Key(n) == [i \in 1..n |-> (i - 1) % 256]

\* n bytes counting up from f
Data(n, f) == [i \in 1..n |-> (f + i - 1) % 256]

\* the caller's output slice before a call
CallerSlice == [i \in 1..32 |-> 170]

\* a caller's slice shorter than every digest hashed here
ShortSlice == [i \in 1..16 |-> 170]

\* the slices passed to finalize_write and finalize_reset_write
Slices == {CallerSlice, ShortSlice}

VARIABLES
    kind,           \* "none", "Blake2s", "Blake2s256" or "KeyedBlake2s"
    h, buf, ctr, out_len,       \* the fields of Blake2s
    saved_key, saved_key_len,   \* the other fields of KeyedBlake2s
    op,             \* the last call made
    arg,            \* its numeric arguments (lengths)
    ok,             \* FALSE when it panicked
    out,            \* the caller's slice after a ..._write call, else <<>>
    ret,            \* the value it returned: <<n>>, an array, or <<>>
    calls,          \* process_block invocations since the last new/reset
    stream,         \* bytes passed to update since the last new/reset
    nupd,           \* number of update calls that returned since then
    origin,         \* what produced the current initial state: "new",
                    \* "reset", "finalize_reset", or "torn" when that reset
                    \* panicked half-way
    fin             \* the digest just finalized by the last call, if any

vars == <<kind, h, buf, ctr, out_len, saved_key, saved_key_len, op, arg, ok,
          out, ret, calls, stream, nupd, origin, fin>>

NoFin == [some |-> FALSE, stream |-> <<>>, calls |-> <<>>, origin |-> "none"]

\* the context as a record, as the operations take it
Cur == [h |-> h, buf |-> buf, ctr |-> ctr, out_len |-> out_len,
        calls |-> calls, r |-> <<>>, ok |-> TRUE]

CurK == [ctx |-> Cur, saved_key |-> saved_key, saved_key_len |-> saved_key_len]

\* the fields of the context after a call
Install(c) == h' = c.h /\ buf' = c.buf /\ ctr' = c.ctr /\ out_len' = c.out_len

Init ==
    /\ kind = "none"
    /\ h = [i \in 0..7 |-> <<0, 0>>]
    /\ buf = Zeros(BUF_LEN)
    /\ ctr = U64(0)
    /\ out_len = 0
    /\ saved_key = Zeros(32)
    /\ saved_key_len = 0
    /\ op = "none"
    /\ arg = <<>>
    /\ ok = TRUE
    /\ out = <<>>
    /\ ret = <<>>
    /\ calls = <<>>
    /\ stream = <<>>
    /\ nupd = 0
    /\ origin = "none"
    /\ fin = NoFin

\* a constructor call that panics: no context is produced
Rejected(name, a) ==
    /\ op' = name /\ arg' = a /\ ok' = FALSE
    /\ UNCHANGED <<kind, h, buf, ctr, out_len, saved_key, saved_key_len, out,
                   ret, calls, stream, nupd, origin, fin>>

\* a constructor call that returns the keyed or unkeyed context k
Constructed(name, a, knd, k) ==
    /\ op' = name /\ arg' = a /\ ok' = TRUE
    /\ kind' = knd
    /\ Install(k.ctx)
    /\ saved_key' = k.saved_key /\ saved_key_len' = k.saved_key_len
    /\ origin' = "new"
    /\ UNCHANGED <<out, ret, calls, stream, nupd, fin>>

\* Blake2s::new(n)
New(lens) ==
    /\ kind = "none"
    /\ \E n \in lens :
         IF Blake2s_new_ok(n)
         THEN Constructed("Blake2s::new", <<n>>, "Blake2s",
                          [ctx |-> Blake2s_new(n), saved_key |-> saved_key,
                           saved_key_len |-> saved_key_len])
         ELSE Rejected("Blake2s::new", <<n>>)

\* Blake2s256::new()
New256 ==
    /\ kind = "none"
    /\ Constructed("Blake2s256::new", <<>>, "Blake2s256",
                   [ctx |-> Blake2s_new(32), saved_key |-> saved_key,
                    saved_key_len |-> saved_key_len])

\* KeyedBlake2s::new(n, Key(kl))
KeyedNew(lens, keylens) ==
    /\ kind = "none"
    /\ \E n \in lens, kl \in keylens :
         IF KeyedBlake2s_new_ok(n, Key(kl))
         THEN Constructed("KeyedBlake2s::new", <<n, kl>>, "KeyedBlake2s",
                          KeyedBlake2s_new(n, Key(kl)))
         ELSE Rejected("KeyedBlake2s::new", <<n, kl>>)

\* update(data) on any of the three types
UpdateWith(data) ==
    /\ \E c \in {Blake2s_update(Cur, data)} :
           /\ Install(c)
           /\ calls' = c.calls
           /\ ok' = c.ok
           /\ stream' = IF c.ok THEN stream \o data ELSE stream
           /\ nupd' = IF c.ok THEN nupd + 1 ELSE nupd
    /\ op' = "update" /\ arg' = <<Len(data)>>
    /\ out' = <<>> /\ ret' = <<>> /\ fin' = NoFin
    /\ UNCHANGED <<kind, saved_key, saved_key_len, origin>>

\* update(Data(n, f)) on any of the three types
Update ==
    /\ kind # "none"
    /\ nupd < MaxUpdates
    /\ \E n \in Lens, f \in Fills :
         /\ Len(stream) + n <= MaxStream
         /\ UpdateWith(Data(n, f))

\* Blake2s::reset and KeyedBlake2s::reset
Reset ==
    /\ kind \in {"Blake2s", "KeyedBlake2s"}
    /\ \E k \in {IF kind = "KeyedBlake2s" THEN KeyedBlake2s_reset(CurK)
                ELSE [CurK EXCEPT !.ctx = Blake2s_reset(Cur)]} :
           /\ Install(k.ctx)
           /\ saved_key' = k.saved_key /\ saved_key_len' = k.saved_key_len
           /\ ok' = k.ctx.ok
           /\ origin' = IF k.ctx.ok THEN "reset" ELSE "torn"
    /\ op' = "reset" /\ arg' = <<>>
    /\ calls' = <<>> /\ stream' = <<>> /\ nupd' = 0
    /\ out' = <<>> /\ ret' = <<>> /\ fin' = NoFin
    /\ UNCHANGED kind

\* the digest a finalize call has just completed
Finished(c) == [some |-> TRUE, stream |-> stream, calls |-> c.calls,
                origin |-> origin]

\* a non-resetting finalize that ends with context c
Finalized(c) ==
    /\ Install(c)
    /\ calls' = c.calls
    /\ ok' = c.ok
    /\ fin' = IF c.ok THEN Finished(c) ELSE NoFin
    /\ UNCHANGED <<kind, saved_key, saved_key_len, stream, nupd, origin>>

\* a resetting finalize that ends with context c; finalized tells whether
\* its inner_finalize returned
FinalizedReset(c, finalized) ==
    /\ Install(c)
    /\ ok' = c.ok
    /\ fin' = IF finalized THEN Finished(c) ELSE NoFin
    /\ calls' = IF finalized THEN <<>> ELSE calls
    /\ stream' = IF finalized THEN <<>> ELSE stream
    /\ nupd' = IF finalized THEN 0 ELSE nupd
    /\ origin' = IF c.ok THEN "finalize_reset"
                 ELSE IF finalized THEN "torn" ELSE origin
    /\ UNCHANGED kind

\* finalize_write(out) on any of the three types, out one of slices
FinalizeWrite(slices) ==
    /\ kind # "none"
    /\ \E s \in slices :
         /\ \E f \in {Blake2s_finalize_write(Cur, s)} :
                Finalized(f.c) /\ out' = f.out /\ ret' = f.ret
         /\ arg' = <<Len(s)>>
    /\ op' = "finalize_write"

\* Blake2s256::finalize
Finalize ==
    /\ kind = "Blake2s256"
    /\ \E c \in {inner_finalize(Cur)} :
           Finalized(c) /\ out' = <<>> /\ ret' = c.r
    /\ op' = "finalize" /\ arg' = <<>>

\* Blake2s256::finalize_reset
FinalizeReset ==
    /\ kind = "Blake2s256"
    /\ \E c \in {inner_finalize_reset(Cur)} :
           FinalizedReset(c, c.ok) /\ out' = <<>> /\ ret' = c.r
    /\ UNCHANGED <<saved_key, saved_key_len>>
    /\ op' = "finalize_reset" /\ arg' = <<>>

\* finalize_reset_write(out) on any of the three types, out one of slices
FinalizeResetWrite(slices) ==
    /\ kind # "none"
    /\ \E s \in slices :
         /\ IF kind = "KeyedBlake2s"
            THEN \E f \in {KeyedBlake2s_finalize_reset_write(CurK, s)} :
                     /\ FinalizedReset(f.k.ctx, f.k.ctx.r # <<>>)
                     /\ saved_key' = f.k.saved_key
                     /\ saved_key_len' = f.k.saved_key_len
                     /\ out' = f.out /\ ret' = f.ret
            ELSE \E f \in {Blake2s_finalize_reset_write(Cur, s)} :
                     /\ FinalizedReset(f.c, f.c.ok)
                     /\ UNCHANGED <<saved_key, saved_key_len>>
                     /\ out' = f.out /\ ret' = f.ret
         /\ arg' = <<Len(s)>>
    /\ op' = "finalize_reset_write"

Next ==
    \/ New(OutLens)
    \/ New256
    \/ KeyedNew(OutLens, KeyLens)
    \/ Update
    \/ Reset
    \/ FinalizeWrite({CallerSlice})
    \/ Finalize
    \/ FinalizeReset
    \/ FinalizeResetWrite({CallerSlice})

Spec == Init /\ [][Next]_vars

----------------------------------------------------------------------------
(* The constructors and reset alone, over every length up to the bounds.   *)

\* largest output length and key length tried
MaxOutLen == 34
MaxKeyLen == 34

NextParams ==
    \/ New(0..MaxOutLen)
    \/ New256
    \/ KeyedNew(0..MaxOutLen, 0..MaxKeyLen)
    \/ Reset

SpecParams == Init /\ [][NextParams]_vars

----------------------------------------------------------------------------
(* The calls of Spec, with output slices that are too short as well.       *)

NextSlices ==
    \/ New(OutLens)
    \/ New256
    \/ KeyedNew(OutLens, KeyLens)
    \/ Update
    \/ Reset
    \/ FinalizeWrite(Slices)
    \/ Finalize
    \/ FinalizeReset
    \/ FinalizeResetWrite(Slices)

SpecSlices == Init /\ [][NextSlices]_vars

----------------------------------------------------------------------------
(* The first known-answer vector of the tests, fed in every split.         *)

\* tests::KAT_BLAKE2S[0]: data "616263", key "", output "508c5e8c...5982"
KAT_BLAKE2S ==
    [data |-> <<97, 98, 99>>,
     key  |-> <<>>,
     out  |-> << 80, 140, 94, 140, 50, 124, 20, 226,
               225, 167, 43, 163, 78, 235, 69, 47,
               55, 69, 139, 32, 158, 214, 58, 41,
               77, 153, 155, 76, 134, 103, 89, 130 >>]

\* update with the next 1 .. 3 bytes of the vector's data
UpdateKAT ==
    /\ kind # "none"
    /\ \E n \in 1..(Len(KAT_BLAKE2S.data) - Len(stream)) :
         UpdateWith(SubSeq(KAT_BLAKE2S.data, Len(stream) + 1, Len(stream) + n))

NextKAT ==
    \/ New({Len(KAT_BLAKE2S.out)})
    \/ New256
    \/ KeyedNew({Len(KAT_BLAKE2S.out)}, {Len(KAT_BLAKE2S.key)})
    \/ UpdateKAT
    \/ Reset
    \/ FinalizeWrite({CallerSlice})
    \/ Finalize
    \/ FinalizeReset
    \/ FinalizeResetWrite({CallerSlice})

SpecKAT == Init /\ [][NextKAT]_vars

----------------------------------------------------------------------------
(* process_block alone: each of its three bodies applied once to inputs    *)
(* h, buf (the block) and ctr drawn by the initial state.                   *)

\* chaining states: two initial ones and one with high bits set
StateInputs ==
    {Blake2s_new(32).h, KeyedBlake2s_new(20, Key(32)).ctx.h,
     [i \in 0..7 |-> <<65535 - i, 32768 + 4369 * i>>]}

\* blocks
BlockInputs == {Zeros(BUF_LEN), Data(BUF_LEN, 97), Data(BUF_LEN, 200)}

\* counters: 0, 64, 2^32 - 64, 2^32 + 64 and 2^63 - 1
CounterInputs ==
    {U64(0), U64(BUF_LEN), <<65472, 65535, 0, 0>>, <<64, 0, 1, 0>>,
     <<65535, 65535, 65535, 32767>>}

InitBackends ==
    /\ kind = "none"
    /\ h \in StateInputs
    /\ buf \in BlockInputs
    /\ ctr \in CounterInputs
    /\ out_len = 0
    /\ saved_key = Zeros(32)
    /\ saved_key_len = 0
    /\ op = "none"
    /\ arg = <<>>
    /\ ok = TRUE
    /\ out = <<>>
    /\ ret = <<>>
    /\ calls = <<>>
    /\ stream = <<>>
    /\ nupd = 0
    /\ origin = "none"
    /\ fin = NoFin

\* a call Self::process_block(&mut h, &buf, ctr, last) that left hnew in h
Processed(name, last, hnew) ==
    /\ h' = hnew
    /\ op' = name /\ arg' = <<IF last THEN 1 ELSE 0>>
    /\ UNCHANGED <<kind, buf, ctr, out_len, saved_key, saved_key_len, ok, out,
                   ret, calls, stream, nupd, origin, fin>>

\* process_block as built for a target other than x86_64
ProcessPortable ==
    /\ op = "none"
    /\ \E last \in BOOLEAN :
         Processed("process_block (portable)", last,
                   process_block(h, buf, ctr, last))

\* process_block as built for x86_64 with AVX2
ProcessAvx2 ==
    /\ op = "none"
    /\ \E last \in BOOLEAN :
         Processed("process_block (AVX2)", last,
                   process_block_avx2(h, buf, ctr, last))

\* process_block as built for x86_64 without AVX2
ProcessSse2 ==
    /\ op = "none"
    /\ \E last \in BOOLEAN :
         Processed("process_block (SSE2)", last,
                   process_block_sse2(h, buf, ctr, last))

NextBackends ==
    \/ ProcessPortable
    \/ ProcessAvx2
    \/ ProcessSse2

SpecBackends == InitBackends /\ [][NextBackends]_vars

----------------------------------------------------------------------------
(* One call of process_block taken step by step: the working vector in out, *)
(* the message of the coming round in ret, the number of rounds done in     *)
(* nupd, the backend in kind and the last flag in arg.                      *)

Backends == {"portable", "AVX2", "SSE2"}
VectorBackends == {"AVX2", "SSE2"}

\* number of rr! invocations of a body
NumRounds == Len(SIGMA)

\* the initialisation of the working vector and the decoding or loading of
\* the block
EnterBlock ==
    /\ kind = "none"
    /\ \E b \in Backends, last \in BOOLEAN :
         /\ kind' = b
         /\ arg' = <<IF last THEN 1 ELSE 0>>
         /\ out' = IF b = "portable" THEN InitialV(h, ctr, last)
                   ELSE VectorInit(h, ctr, last)
         /\ ret' = IF b = "portable" THEN MessageWords(buf)
                   ELSE VectorLoad(buf)
    /\ op' = "init" /\ nupd' = 0
    /\ UNCHANGED <<h, buf, ctr, out_len, saved_key, saved_key_len, ok, calls,
                   stream, origin, fin>>

\* round nupd: its rr! invocation, then the message vectors of the next
\* round, which the x86_64 bodies derive from those of this one
RoundStep ==
    /\ kind \in Backends
    /\ nupd < NumRounds
    /\ out' = CASE kind = "portable" -> rr(out, ret, SIGMA[nupd + 1])
                [] kind = "AVX2" -> avx2_rr(out, ret)
                [] kind = "SSE2" -> sse2_rr(out, ret)
    /\ ret' = IF kind = "portable" \/ nupd + 1 = NumRounds THEN ret
              ELSE IF kind = "AVX2" THEN avx2_schedule(nupd + 1, ret)
              ELSE sse2_schedule(nupd + 1, ret)
    /\ op' = "round" /\ nupd' = nupd + 1
    /\ UNCHANGED <<kind, h, buf, ctr, out_len, saved_key, saved_key_len, arg,
                   ok, calls, stream, origin, fin>>

\* the folding of the working vector into h
FoldStep ==
    /\ kind \in Backends
    /\ nupd = NumRounds /\ op = "round"
    /\ h' = IF kind = "portable" THEN FoldState(h, out) ELSE VectorFold(h, out)
    /\ op' = "fold"
    /\ UNCHANGED <<kind, buf, ctr, out_len, saved_key, saved_key_len, arg, ok,
                   out, ret, calls, stream, nupd, origin, fin>>

NextRounds ==
    \/ EnterBlock
    \/ RoundStep
    \/ FoldStep

SpecRounds == InitBackends /\ [][NextRounds]_vars

----------------------------------------------------------------------------
(* Blake2s::update taken one pass of its loop at a time.  While the call   *)
(* is in its loop, op is "update (loop)", out is the data it was given and *)
(* arg is <<data.len(), j>>.                                               *)

\* an update call is at the head of its while loop
InCall == op = "update (loop)"

\* the loop of update going back to its head without advancing
InProgress_stuck(c, data, j2) ==
    IF op = "update (loop)" THEN UNCHANGED vars
    ELSE /\ Install(c)
         /\ calls' = c.calls
         /\ ok' = c.ok
         /\ op' = "update (loop)" /\ arg' = <<Len(data), j2>> /\ out' = data
         /\ UNCHANGED <<kind, saved_key, saved_key_len, ret, stream, nupd,
                        origin, fin>>

\* update reaches the head of its loop with context c and index j2
InProgress(c, data, j2) ==
    /\ Install(c)
    /\ calls' = c.calls
    /\ ok' = c.ok
    /\ op' = "update (loop)" /\ arg' = <<Len(data), j2>> /\ out' = data
    /\ UNCHANGED <<kind, saved_key, saved_key_len, ret, stream, nupd, origin,
                   fin>>

\* update(data) returns or panics with context c
UpdateReturned(c, data) ==
    /\ Install(c)
    /\ calls' = c.calls
    /\ ok' = c.ok
    /\ stream' = IF c.ok THEN stream \o data ELSE stream
    /\ nupd' = IF c.ok THEN nupd + 1 ELSE nupd
    /\ op' = "update" /\ arg' = <<Len(data)>>
    /\ out' = <<>> /\ ret' = <<>> /\ fin' = NoFin
    /\ UNCHANGED <<kind, saved_key, saved_key_len, origin>>

\* a step of update: the call up to its return or to the head of the loop,
\* or one evaluation of the loop condition followed by one pass of the body
UpdateStep ==
    /\ kind # "none"
    /\ IF ~InCall
       THEN /\ nupd < MaxUpdates
            /\ \E n \in {0, 1, 2 * BUF_LEN, 3 * BUF_LEN + 1}, f \in Fills :
                 \E data \in {Data(n, f)} :
                   IF ctr = POISON THEN UpdateReturned(Panic(Cur), data)
                   ELSE IF Len(data) = 0 THEN UpdateReturned(Cur, data)
                   ELSE IF ctr = U64(0) \/ ctr[1] % BUF_LEN # 0
                   THEN \E p \in {ctr[1] % BUF_LEN} :
                          IF BUF_LEN - p >= Len(data)
                          THEN UpdateReturned(
                                   [Cur EXCEPT
                                      !.buf = copy_from_slice(@, p,
                                                  p + Len(data), data),
                                      !.ctr = U64Add(@, Len(data))],
                                   data)
                          ELSE \E c1 \in {[Cur EXCEPT
                                             !.buf = copy_from_slice(@, p,
                                                 BUF_LEN,
                                                 Slice(data, 0, BUF_LEN - p)),
                                             !.ctr = U64Add(@, BUF_LEN - p)]} :
                               \E c2 \in {Compress(c1, c1.buf, c1.ctr, FALSE,
                                                    "update")} :
                                 InProgress(c2, data, BUF_LEN - p)
                   ELSE \E c2 \in {Compress(Cur, buf, ctr, FALSE, "update")} :
                          InProgress(c2, data, 0)
       ELSE \E j \in {arg[2]} :
              IF j < Len(out)
              THEN IF Len(out) - j <= BUF_LEN
                   THEN UpdateReturned(
                            [Cur EXCEPT
                               !.buf = copy_from_slice(@, 0, Len(out) - j,
                                           Slice(out, j, Len(out))),
                               !.ctr = U64Add(@, Len(out) - j)],
                            out)
                   ELSE \E ctr1 \in {U64Add(ctr, BUF_LEN)} :
                        \E c2 \in {Compress([Cur EXCEPT !.ctr = ctr1],
                                             Slice(out, j, j + BUF_LEN), ctr1,
                                             FALSE, "update")} :
                          InProgress(c2, out, j + BUF_LEN)
              ELSE UpdateReturned(Cur, out)

NextSteps ==
    \/ New({20})
    \/ KeyedNew({20}, {1})
    \/ UpdateStep
    \/ ~InCall /\ Reset
    \/ ~InCall /\ FinalizeWrite({CallerSlice})
    \/ ~InCall /\ FinalizeResetWrite({CallerSlice})

\* a call that has started goes on executing
SpecSteps == Init /\ [][NextSteps]_vars /\ WF_vars(InCall /\ UpdateStep)

----------------------------------------------------------------------------
(* Vocabulary of the properties                                            *)

Constructors == {"Blake2s::new", "Blake2s256::new", "KeyedBlake2s::new"}
FinalizeOps == {"finalize", "finalize_write", "finalize_reset",
                "finalize_reset_write"}
ResettingOps == {"finalize_reset", "finalize_reset_write"}
Unkeyed == {"Blake2s", "Blake2s256"}

Poisoned == ctr = POISON

WriteOps == {"finalize_write", "finalize_reset_write"}

\* the slice passed to the last call, if it took one, held out_len bytes
SliceFits == op \in WriteOps => arg[1] >= out_len

\* the slice the last call was given, as it was before the call
SliceBefore == IF op \in WriteOps THEN [i \in 1..arg[1] |-> 170] ELSE <<>>

\* the key given to KeyedBlake2s::new
SavedKey == SubSeq(saved_key, 1, saved_key_len)

\* the digest the last finalize call produced
Digest ==
    IF op \in {"finalize", "finalize_reset"} THEN ret
    ELSE SubSeq(out, 1, out_len)

\* the digest of data by new, one update(data) and finalize on a fresh
\* context with this context's out_len and key
OneShot(data) ==
    IF kind = "KeyedBlake2s"
    THEN SubSeq(KeyedBlake2s_hash_into(out_len, SavedKey, data, CallerSlice),
                1, out_len)
    ELSE SubSeq(Blake2s_hash_into(out_len, data, CallerSlice), 1, out_len)

\* number of process_block invocations in cs made by function f
NumBy(cs, f) == Cardinality({i \in 1..Len(cs) : cs[i].by = f})

\* the key block is part of the current stream
KeySeeded == kind = "KeyedBlake2s" /\ saved_key_len > 0 /\ origin # "torn"

\* the logical stream since the last new/reset: the key block, if any, then
\* the bytes passed to update
Logical ==
    IF KeySeeded THEN SavedKey \o Zeros(BUF_LEN - saved_key_len) \o stream
    ELSE stream

\* h[0] as the parameter encoding gives it
ParamWord(n, kl) ==
    Xor32(Xor32(Xor32(IV[0], <<\H0101, 0>>), U32(n)), U32(256 * kl))

----------------------------------------------------------------------------
(* Properties                                                              *)

\* C1: whatever the split of the data into update calls, the digest that
\* finalize writes on a context built by new equals the digest of one
\* update(data) on a fresh context with the same out_len and key.
C1_StreamingEquivalence ==
    (op \in FinalizeOps /\ fin.some /\ fin.origin = "new")
        => Digest = OneShot(fin.stream)

\* C1: a keyed digest of 128 bytes fed in two non-empty update calls
C1_Witness ==
    /\ op = "finalize_write" /\ ok /\ fin.some /\ fin.origin = "new"
    /\ kind = "KeyedBlake2s" /\ saved_key_len = 1
    /\ nupd = 2 /\ Len(fin.stream) = 2 * BUF_LEN

\* C2: a finalize_reset on a usable context, given a slice of at least
\* out_len bytes, returns, and the digest of the input hashed after it on the
\* same context equals the digest of that input on a fresh context with the
\* same out_len and key.
C2_ResetIdempotence ==
    /\ (op \in ResettingOps /\ ~Poisoned /\ SliceFits) => ok
    /\ (op \in FinalizeOps /\ fin.some /\ fin.origin = "finalize_reset")
           => Digest = OneShot(fin.stream)

\* C3: KeyedBlake2s::reset with a key of 1..32 bytes returns and leaves the
\* state of KeyedBlake2s::new(out_len, key).
C3_KeyedResetReseeds ==
    (op = "reset" /\ kind = "KeyedBlake2s" /\ saved_key_len \in 1..32)
        => /\ ok
           /\ h = [IV EXCEPT ![0] = ParamWord(out_len, saved_key_len)]
           /\ buf = SavedKey \o Zeros(BUF_LEN - saved_key_len)
           /\ ctr = U64(BUF_LEN)

\* the digest just finalized on a context built by an unkeyed new took n
\* bytes, u compressions in update and f in finalize
Boundary(n, u, f) ==
    (fin.some /\ fin.origin = "new" /\ kind \in Unkeyed /\ Len(fin.stream) = n)
        => /\ NumBy(fin.calls, "update") = u
           /\ NumBy(fin.calls, "inner_finalize") = f

\* C4 as stated: 0, 63, 64 and 65 bytes take 0, 0, 1 and 2 compressions in
\* update, and one in finalize.
C4_BoundaryAsStated ==
    /\ Boundary(0, 0, 1)
    /\ Boundary(BUF_LEN - 1, 0, 1)
    /\ Boundary(BUF_LEN, 1, 1)
    /\ Boundary(BUF_LEN + 1, 2, 1)

\* C4 (amended): 0, 63, 64 and 65 bytes take 0, 0, 0 and 1 compressions in
\* update, and one in finalize.
C4_Boundary ==
    /\ Boundary(0, 0, 1)
    /\ Boundary(BUF_LEN - 1, 0, 1)
    /\ Boundary(BUF_LEN, 0, 1)
    /\ Boundary(BUF_LEN + 1, 1, 1)

\* C4: 65 bytes hashed by one update and a finalize on a fresh Blake2s
C4_Witness ==
    /\ fin.some /\ fin.origin = "new" /\ kind = "Blake2s"
    /\ nupd = 1 /\ Len(fin.stream) = BUF_LEN + 1

\* C5: on a usable context with a logical stream of n > 0 bytes (key block
\* included), update has made exactly ceil(n / 64) - 1 compressions, and the
\* remaining 1..64 bytes of the stream are the first bytes of buf.
C5_LazyLastBlock ==
    (kind # "none" /\ ~Poisoned /\ Len(Logical) > 0)
        => LET n == Len(Logical)
               k == Len(calls)
           IN  /\ k = ((n + BUF_LEN - 1) \div BUF_LEN) - 1
               /\ \A i \in 1..k : calls[i].by = "update"
               /\ n - BUF_LEN * k \in 1..BUF_LEN
               /\ SubSeq(buf, 1, n - BUF_LEN * k)
                      = SubSeq(Logical, BUF_LEN * k + 1, n)

\* C5: 128 bytes fed to an unkeyed context, one block still pending
C5_Witness ==
    /\ op = "update" /\ ok /\ kind = "Blake2s"
    /\ Len(stream) = 2 * BUF_LEN /\ Len(calls) = 1

\* C6: a finalized digest has exactly one compression with last = true, its
\* last one, made by inner_finalize; all others are made by update with
\* last = false.
C6_LastFlagOnce ==
    /\ fin.some =>
         /\ Len(fin.calls) >= 1
         /\ \A i \in 1..Len(fin.calls) :
              IF i = Len(fin.calls)
              THEN fin.calls[i].last /\ fin.calls[i].by = "inner_finalize"
              ELSE ~fin.calls[i].last /\ fin.calls[i].by = "update"
    /\ ~Poisoned =>
         \A i \in 1..Len(calls) : ~calls[i].last /\ calls[i].by = "update"
    /\ Poisoned =>
         \A i \in 1..Len(calls) : calls[i].last <=> i = Len(calls)

\* C6: a digest of three compressions
C6_Witness == fin.some /\ Len(fin.calls) = 3 /\ op = "finalize_reset_write"

\* C7: a non-resetting finalize poisons the context; on a poisoned context
\* update and finalize panic and change nothing; the context stays poisoned
\* until reset, and on a context that is not poisoned update and finalize
\* return (finalize_write when its slice holds out_len bytes).
C7_UseAfterFinalize ==
    [][ /\ (op' \in {"finalize", "finalize_write"} /\ ok') => ctr' = POISON
        /\ (Poisoned /\ op' \in {"update"} \cup FinalizeOps)
               => /\ ~ok'
                  /\ h' = h /\ buf' = buf /\ ctr' = ctr /\ out_len' = out_len
                  /\ calls' = calls
        /\ (Poisoned /\ op' # "reset") => ctr' = POISON
        /\ (Poisoned /\ op' = "reset") => ctr' # POISON
        /\ (~Poisoned /\ kind # "none"
              /\ op' \in {"update", "finalize", "finalize_write"}
              /\ SliceFits') => ok'
      ]_vars

\* C7: update with empty data has panicked on a poisoned context
C7_Witness == Poisoned /\ op = "update" /\ arg = <<0>> /\ ~ok

\* C8: after a constructor with out_len in 1..32 and a key of 0..32 bytes,
\* h[0] = IV[0] ^ 0x01010000 ^ out_len ^ (key_len << 8) and h[1..7] = IV[1..7].
C8_ParameterEncoding ==
    /\ (op = "Blake2s::new" /\ ok) => h = [IV EXCEPT ![0] = ParamWord(arg[1], 0)]
    /\ (op = "Blake2s256::new" /\ ok) => h = [IV EXCEPT ![0] = ParamWord(32, 0)]
    /\ (op = "KeyedBlake2s::new" /\ ok)
           => h = [IV EXCEPT ![0] = ParamWord(arg[1], arg[2])]

\* C8: a keyed context with a 20-byte output and a 31-byte key
C8_Witness == op = "KeyedBlake2s::new" /\ ok /\ arg = <<20, 31>>

\* C9: a constructor returns exactly when out_len is in 1..32 and the key has
\* at most 32 bytes, and it produces no context when it panics.
C9_ConstructionRejects ==
    /\ op = "Blake2s::new" => (ok <=> arg[1] \in 1..32)
    /\ op = "KeyedBlake2s::new" => (ok <=> (arg[1] \in 1..32 /\ arg[2] <= 32))
    /\ (op \in Constructors /\ ~ok) => kind = "none"
    /\ (op \in Constructors /\ ok) => kind # "none" /\ out_len \in 1..32

\* C9: KeyedBlake2s::new(32, key of 33 bytes) has panicked
C9_Witness == op = "KeyedBlake2s::new" /\ ~ok /\ arg = <<32, 33>>

\* the fields of the context and the result of the last call are those of
\* the outcome f
SameOutcome(f) ==
    /\ h' = f.c.h /\ buf' = f.c.buf /\ ctr' = f.c.ctr /\ out_len' = f.c.out_len
    /\ ok' = f.c.ok /\ out' = f.out /\ ret' = f.ret

\* C10: KeyedBlake2s::new with an empty key gives the state of Blake2s::new,
\* and every call on a KeyedBlake2s with an empty key has the outcome the
\* same call has on a Blake2s in the same state.
C10_EmptyKeyIsUnkeyed ==
    [][ /\ (op' = "KeyedBlake2s::new" /\ ok' /\ arg'[2] = 0)
               => \E g \in {Outcome(Blake2s_new(arg'[1]), <<>>, <<>>)} :
                      SameOutcome(g)
        /\ (kind = "KeyedBlake2s" /\ saved_key_len = 0) =>
             /\ op' = "update" =>
                  \E f \in Fills :
                      \E g \in {Outcome(Blake2s_update(Cur, Data(arg'[1], f)),
                                        <<>>, <<>>)} : SameOutcome(g)
             /\ op' = "reset" =>
                  \E g \in {Outcome(Blake2s_reset(Cur), <<>>, <<>>)} :
                      SameOutcome(g)
             /\ op' = "finalize_write" =>
                  \E g \in {Blake2s_finalize_write(Cur, SliceBefore')} :
                      SameOutcome(g)
             /\ op' = "finalize_reset_write" =>
                  \E g \in {Blake2s_finalize_reset_write(Cur, SliceBefore')} :
                      SameOutcome(g)
      ]_vars

\* C10: a KeyedBlake2s with an empty key has hashed 65 bytes and reset itself
C10_Witness ==
    /\ kind = "KeyedBlake2s" /\ saved_key_len = 0
    /\ op = "finalize_reset_write" /\ ok /\ Len(fin.stream) = BUF_LEN + 1

\* byte k (0 the least significant) of the 32-bit word w
ByteOf(w, k) ==
    IF k = 0 THEN w[2] % 256
    ELSE IF k = 1 THEN w[2] \div 256
    ELSE IF k = 2 THEN w[1] % 256
    ELSE w[1] \div 256

\* the first n bytes of the eight words hw, each least significant byte first
Truncated(hw, n) == [i \in 1..n |-> ByteOf(hw[(i - 1) \div 4], (i - 1) % 4)]

\* C11: a finalize_write or finalize_reset_write that returns has written to
\* out[0..out_len) the first out_len bytes of the little-endian serialization
\* of the state words after the last compression, has left out[out_len..]
\* as it was, and has returned out_len.
C11_Truncation ==
    [][ (op' \in WriteOps /\ ok') =>
            /\ out' = Truncated(inner_finalize(Cur).h, out_len)
                         \o SubSeq(SliceBefore', out_len + 1, arg'[1])
            /\ ret' = <<out_len>>
            /\ op' = "finalize_write" => out' = Truncated(h', out_len)
                         \o SubSeq(SliceBefore', out_len + 1, arg'[1])
      ]_vars

\* C11: a 20-byte digest of 65 bytes written to a slice of 32 bytes
C11_Witness ==
    /\ op = "finalize_reset_write" /\ ok /\ kind = "Blake2s" /\ out_len = 20
    /\ arg = <<32>> /\ Len(fin.stream) = BUF_LEN + 1

BackendOps ==
    {"process_block (portable)", "process_block (AVX2)", "process_block (SSE2)"}

\* C12: whichever body of process_block is applied to a chaining state, a
\* block, a counter and a last flag, h ends as the portable body, the AVX2
\* body and the SSE2 body each leave it.
C12_BackendEquivalence ==
    [][ op' \in BackendOps =>
            /\ h' = process_block(h, buf, ctr, arg'[1] = 1)
            /\ h' = process_block_avx2(h, buf, ctr, arg'[1] = 1)
            /\ h' = process_block_sse2(h, buf, ctr, arg'[1] = 1)
      ]_vars

\* C12: the AVX2 body applied to a last block with a counter above 2^32
C12_Witness ==
    /\ op = "process_block (AVX2)" /\ arg = <<1>>
    /\ ctr = <<64, 0, 1, 0>> /\ buf = Data(BUF_LEN, 200)

\* the logical stream of the digest just finalized: the key block, if the
\* context held one, then the bytes passed to update
FinLogical ==
    IF kind = "KeyedBlake2s" /\ saved_key_len > 0 /\ fin.origin # "torn"
    THEN SavedKey \o Zeros(BUF_LEN - saved_key_len) \o fin.stream
    ELSE fin.stream

\* the k-th of the K compressions of stream S
ExpectedCall(S, k, K) ==
    IF k < K
    THEN [block |-> SubSeq(S, BUF_LEN * (k - 1) + 1, BUF_LEN * k),
          ctr |-> U64(BUF_LEN * k), last |-> FALSE, by |-> "update"]
    ELSE [block |-> SubSeq(S, BUF_LEN * (K - 1) + 1, Len(S))
                        \o Zeros(BUF_LEN * K - Len(S)),
          ctr |-> U64(Len(S)), last |-> TRUE, by |-> "inner_finalize"]

\* number of compressions of a stream of n bytes
NumBlocks(n) == IF n = 0 THEN 1 ELSE (n + BUF_LEN - 1) \div BUF_LEN

AfterNewOrReset ==
    \/ op \in Constructors /\ ok
    \/ op = "reset"
    \/ op \in ResettingOps /\ fin.some

\* C14: after construction or reset, ctr = 64 and buf = key || zeros when the
\* context is keyed with a non-empty key, else ctr = 0 and buf is all zeros.
C14_CounterAfterReset ==
    AfterNewOrReset =>
        IF kind = "KeyedBlake2s" /\ saved_key_len > 0
        THEN ctr = U64(BUF_LEN)
             /\ buf = SavedKey \o Zeros(BUF_LEN - saved_key_len)
        ELSE ctr = U64(0) /\ buf = Zeros(BUF_LEN)

\* C15: Blake2s::reset, in whatever state it is called, returns and leaves
\* h, buf and ctr as Blake2s::new(out_len) gives them, with out_len unchanged.
C15_ResetRestoresNew ==
    [][ (op' = "reset" /\ kind = "Blake2s") =>
            /\ ok'
            /\ h' = Blake2s_new(out_len).h
            /\ buf' = Blake2s_new(out_len).buf
            /\ ctr' = Blake2s_new(out_len).ctr
            /\ out_len' = out_len
      ]_vars

\* C15: a Blake2s has been reset
C15_Witness == op = "reset" /\ kind = "Blake2s" /\ ok /\ ctr = U64(0)

\* the outcome of Blake2s256::finalize that left context c
Returned(c) == Outcome(c, <<>>, c.r)

\* the outcome of a finalize with outcome f followed, if it returned, by
\* Blake2s::reset
ThenReset(f) ==
    IF f.c.ok THEN Outcome(Blake2s_reset(f.c), f.out, f.ret) ELSE f

\* the outcome of a finalize with outcome f followed by a reset that left c1
Sequenced(c1, f) == Outcome(c1, f.out, IF c1.ok THEN f.ret ELSE <<>>)

\* the outcome of a finalize with outcome f followed, if it returned, by
\* KeyedBlake2s::reset
ThenKeyedReset(f) ==
    IF f.c.ok
    THEN Sequenced(KeyedBlake2s_reset([CurK EXCEPT !.ctx = f.c]).ctx, f)
    ELSE f

\* C16: each finalize_reset variant has the outcome (fields, bytes written,
\* value returned, panic) of the non-resetting finalize of its type followed
\* by that type's reset, KeyedBlake2s::reset for KeyedBlake2s; when the
\* finalize succeeded the context is not poisoned afterwards.
C16_FinalizeResetIsFinalizeThenReset ==
    [][ /\ (op' = "finalize_reset") =>
              \E f \in {ThenReset(Returned(inner_finalize(Cur)))} :
                  SameOutcome(f)
        /\ (op' = "finalize_reset_write" /\ kind \in Unkeyed) =>
              \E f \in {ThenReset(Blake2s_finalize_write(Cur, SliceBefore'))} :
                  SameOutcome(f)
        /\ (op' = "finalize_reset_write" /\ kind = "KeyedBlake2s") =>
              \E f \in {ThenKeyedReset(
                             Blake2s_finalize_write(Cur, SliceBefore'))} :
                  SameOutcome(f)
        /\ (op' \in ResettingOps /\ fin'.some) => ctr' # POISON
      ]_vars

\* C16: a KeyedBlake2s with a 32-byte key has hashed 65 bytes and reset
\* itself
C16_Witness ==
    /\ op = "finalize_reset_write" /\ ok /\ kind = "KeyedBlake2s"
    /\ saved_key_len = 32 /\ Len(fin.stream) = BUF_LEN + 1
    /\ ctr = U64(BUF_LEN)

\* the last call finalized a digest of no bytes at all on a context that
\* holds no key
EmptyUnkeyedDigest ==
    /\ fin.some /\ saved_key_len = 0
    /\ fin.stream = <<>>

\* C17: on an unkeyed context fed zero bytes (no update, or only empty
\* updates), finalize makes exactly one compression, of an all-zero 64-byte
\* block with counter 0 and last = true, applied to the initial chaining
\* state: the digest is the first out_len bytes of that compression's output.
C17_EmptyInputFinalize ==
    EmptyUnkeyedDigest =>
        /\ fin.calls = << [block |-> Zeros(BUF_LEN), ctr |-> U64(0),
                           last |-> TRUE, by |-> "inner_finalize"] >>
        /\ Digest = Truncated(process_block(Blake2s_new(out_len).h,
                                            Zeros(BUF_LEN), U64(0), TRUE),
                              out_len)

\* C17: finalize after two empty updates on a Blake2s context
C17_Witness ==
    /\ EmptyUnkeyedDigest /\ kind = "Blake2s" /\ nupd = 2
    /\ op = "finalize_write" /\ ok

\* C18: the digest of "abc" with no key and out_len = 32, fed in one update
\* call, in three one-byte update calls or in any other split, is
\* 508c5e8c 327c14e2 e1a72ba3 4eeb452f 37458b20 9ed63a29 4d999b4c 86675982.
C18_KnownAnswer ==
    (fin.some /\ saved_key_len = 0 /\ out_len = 32
              /\ fin.stream = KAT_BLAKE2S.data)
        => Digest = KAT_BLAKE2S.out

\* C18: "abc" fed in three one-byte update calls, then finalize_write
C18_Witness ==
    /\ fin.some /\ fin.stream = KAT_BLAKE2S.data /\ nupd = 3
    /\ kind = "Blake2s" /\ out_len = 32 /\ op = "finalize_write"

\* C19: every call that fails (a constructor given an invalid out_len or key
\* length, update or finalize on a poisoned context, finalize_write or
\* finalize_reset_write given a slice shorter than out_len,
\* KeyedBlake2s::reset and KeyedBlake2s::finalize_reset_write whatever the
\* stored key length) leaves h, buf and ctr of the context and the caller's
\* output slice exactly as they were before the call.
C19_FailureAtomicity ==
    [][ ~ok' => /\ h' = h /\ buf' = buf /\ ctr' = ctr
                /\ out' = SliceBefore'
      ]_vars

\* the bytes of the buffer not yet compressed when it is not full
BufPos == ctr[1] % BUF_LEN

\* the context is usable and its buffer is not full
BufferOpen == ~Poisoned /\ (ctr = U64(0) \/ BufPos # 0)

\* C20: on a usable context whose buffer is not full, with p = ctr mod 64, an
\* update with 1 <= len(data) <= 64 - p makes no compression, leaves h and
\* buf[0..p) unchanged, writes data to buf[p..p+len) and adds len(data) to
\* ctr, also when p + len(data) = 64.
C20_BufferOnlyUpdate ==
    [][ (op' = "update" /\ kind # "none" /\ BufferOpen
           /\ 1 <= arg'[1] /\ arg'[1] <= BUF_LEN - BufPos)
          => /\ ok'
             /\ calls' = calls
             /\ h' = h
             /\ SubSeq(buf', 1, BufPos) = SubSeq(buf, 1, BufPos)
             /\ \E f \in Fills :
                    SubSeq(buf', BufPos + 1, BufPos + arg'[1])
                        = Data(arg'[1], f)
             /\ ctr' = U64Add(ctr, arg'[1])
      ]_vars

\* C20: one byte, then 63 more that fill the block exactly; nothing has been
\* compressed
C20_Witness ==
    /\ op = "update" /\ ok /\ arg = <<63>> /\ nupd = 2
    /\ Len(stream) = BUF_LEN /\ ctr = U64(BUF_LEN) /\ calls = <<>>

\* C21: update with empty data on a usable context changes nothing: h, buf,
\* ctr and out_len stay as they were and no compression is made, whether ctr
\* is 0, the buffer is partly filled, the buffer is full, or it holds the key
\* block.
C21_EmptyUpdateNoOp ==
    [][ (op' = "update" /\ arg' = <<0>> /\ kind # "none" /\ ~Poisoned)
          => /\ ok'
             /\ h' = h /\ buf' = buf /\ ctr' = ctr /\ out_len' = out_len
             /\ calls' = calls
      ]_vars

\* C21: an empty update on the key block of a 32-byte key, still to be
\* compressed
C21_Witness ==
    /\ op = "update" /\ arg = <<0>> /\ ok /\ nupd = 1
    /\ kind = "KeyedBlake2s" /\ saved_key_len = 32
    /\ ctr = U64(BUF_LEN) /\ calls = <<>>

\* the block key || zeros of the context's key
KeyBlock == SavedKey \o Zeros(BUF_LEN - saved_key_len)

\* the compression of the key block with the given last flag
KeyBlockCall(last) ==
    [block |-> KeyBlock, ctr |-> U64(BUF_LEN), last |-> last,
     by |-> IF last THEN "inner_finalize" ELSE "update"]

\* C22: for a non-empty key, construction and reset compress nothing; once a
\* data byte has been supplied the key block is the first block compressed,
\* with counter 64 and last = false, by the first update call with non-empty
\* data; when no data byte is supplied it is compressed at finalize only,
\* with counter 64 and last = true.
C22_KeyBlockHandling ==
    (kind = "KeyedBlake2s" /\ saved_key_len > 0) =>
        /\ AfterNewOrReset => calls = <<>>
        /\ (~Poisoned /\ stream = <<>>) => calls = <<>>
        /\ (~Poisoned /\ stream # <<>>) =>
               Len(calls) >= 1 /\ calls[1] = KeyBlockCall(FALSE)
        /\ (fin.some /\ fin.stream # <<>>) =>
               Len(fin.calls) >= 2 /\ fin.calls[1] = KeyBlockCall(FALSE)
        /\ (fin.some /\ fin.stream = <<>>) =>
               fin.calls = << KeyBlockCall(TRUE) >>

\* the bytes of the logical stream not yet compressed: none when the stream
\* is empty, else its last ((n - 1) mod 64) + 1 bytes
Pending ==
    LET n == Len(Logical)
    IN  IF n = 0 THEN <<>>
        ELSE SubSeq(Logical, n - ((n - 1) % BUF_LEN), n)

\* C23: the block a finalize compresses is buf[0..p) followed by 64 - p zero
\* bytes, p = ctr mod 64, when ctr = 0 or p # 0, and the whole of buf when
\* ctr is a non-zero multiple of 64; in both cases it is the pending bytes of
\* the stream followed by zeros, whatever earlier blocks left in buf.
C23_FinalBlockPadding ==
    [][ (op' \in FinalizeOps /\ kind # "none" /\ ~Poisoned)
          => /\ fin'.some
             /\ fin'.calls[Len(fin'.calls)].block
                  = (IF ctr = U64(0) \/ ctr[1] % BUF_LEN # 0
                     THEN SubSeq(buf, 1, ctr[1] % BUF_LEN)
                              \o Zeros(BUF_LEN - (ctr[1] % BUF_LEN))
                     ELSE buf)
             /\ fin'.calls[Len(fin'.calls)].block
                  = Pending \o Zeros(BUF_LEN - Len(Pending))
      ]_vars

\* C23: 129 bytes fed in one call, the second block compressed from the
\* caller's slice: buf holds the last byte followed by 63 bytes of the first
\* block when finalize starts
C23_Witness ==
    /\ fin.some /\ op = "finalize" /\ nupd = 1
    /\ Len(fin.stream) = 2 * BUF_LEN + 1 /\ Len(fin.calls) = 3
    /\ fin.calls[3].block = <<fin.stream[2 * BUF_LEN + 1]>> \o Zeros(BUF_LEN - 1)
    /\ buf[2] = 0

\* the sixteen words of the working vector held in four vectors: word
\* 4 i + k is lane k of vector i
Words(x) == [i \in 0..15 |-> x[(i \div 4) + 1][(i % 4) + 1]]

\* the round whose message is in ret
RoundInRet == IF nupd < NumRounds THEN nupd ELSE NumRounds - 1

\* the four message vectors that gather the words of m by the row s: the
\* entries 0 2 4 6, 1 3 5 7, 8 10 12 14 and 9 11 13 15 of s
Gathered(m, s) ==
    << <<m[s[1]], m[s[3]], m[s[5]], m[s[7]]>>,
       <<m[s[2]], m[s[4]], m[s[6]], m[s[8]]>>,
       <<m[s[9]], m[s[11]], m[s[13]], m[s[15]]>>,
       <<m[s[10]], m[s[12]], m[s[14]], m[s[16]]>> >>

\* C24: in every round r of the AVX2 body the four message vectors passed to
\* rr! hold, lane by lane, the block words sigma(r)[0 2 4 6], [1 3 5 7],
\* [8 10 12 14] and [9 11 13 15], sigma(r) being the row of the portable
\* body; and every row is a permutation of 0..15.
C24_Avx2MessageSchedule ==
    /\ kind = "AVX2" => ret = Gathered(MessageWords(buf), SIGMA[RoundInRet + 1])
    /\ \A r \in 1..Len(SIGMA) :
           /\ Len(SIGMA[r]) = 16
           /\ {SIGMA[r][i] : i \in 1..16} = 0..15

\* C24: the message vectors of the last round of the AVX2 body, for a block
\* of sixteen different words
C24_Witness ==
    /\ kind = "AVX2" /\ op = "round" /\ nupd = NumRounds - 1
    /\ buf = Data(BUF_LEN, 97)
    /\ Cardinality({MessageWords(buf)[i] : i \in 0..15}) = 16

\* the message vectors the AVX2 body passes to rr! in round r for a block
RECURSIVE Avx2Vectors(_, _)
Avx2Vectors(block, r) ==
    IF r = 0 THEN VectorLoad(block)
    ELSE avx2_schedule(r, Avx2Vectors(block, r - 1))

\* the masks xz1 .. xz7 with the _mm_blend_epi32 constant that takes the
\* second operand in the lanes where the mask is set
MaskAndBlend ==
    {<<xz1, 1>>, <<xz2, 2>>, <<xz3, 3>>, <<xz4, 4>>, <<xz5, 5>>, <<xz6, 6>>,
     <<xz7, 7>>}

\* C25: in every round the four message vectors the SSE2 body passes to rr!
\* equal, lane for lane, those the AVX2 body passes in that round; every lane
\* of a mask xz1 .. xz7 is all zeros or all ones, so that
\* (!xz & a) | (xz & b) takes each lane from exactly one of a and b, the one
\* the _mm_blend_epi32 with the corresponding constant takes.
C25_Sse2MessageSchedule ==
    kind = "SSE2" =>
        /\ ret = Avx2Vectors(buf, RoundInRet)
        /\ \A zb \in MaskAndBlend :
               /\ \A k \in 1..4 : zb[1][k] \in {<<0, 0>>, <<65535, 65535>>}
               /\ \A i, j \in 1..4 :
                      mm_or_si128(mm_andnot_si128(zb[1], ret[i]),
                                  mm_and_si128(zb[1], ret[j]))
                          = mm_blend_epi32(ret[i], ret[j], zb[2])

\* C25: the message vectors of the last round of the SSE2 body, for a block
\* of sixteen different words
C25_Witness ==
    /\ kind = "SSE2" /\ op = "round" /\ nupd = NumRounds - 1
    /\ buf = Data(BUF_LEN, 200)
    /\ Cardinality({MessageWords(buf)[i] : i \in 0..15}) = 16

\* the message words that make the portable rr!, reading them in order
\* m[0], m[1], .., pair its gg! invocations as rr! of the x86_64 bodies pairs
\* the lanes of i0, i1 (first g4!) and of i2, i3 (second g4!)
Paired(x) ==
    [i \in 0..15 |->
       IF i < 8 THEN x[(i % 2) + 1][(i \div 2) + 1]
       ELSE x[(i % 2) + 3][((i - 8) \div 2) + 1]]

\* the row 0, 1, .., 15
InOrder == [i \in 1..16 |-> i - 1]

\* the word groups the g4! lanes 0..3 mix in v = <<xv0, xv1, xv2, xv3>>, as
\* indices of the 16-word working vector a holds
LaneGroups(a, v) ==
    {<<i0, i1, i2, i3>> \in (0..3) \X (4..7) \X (8..11) \X (12..15) :
        \E k \in 1..4 : /\ v[1][k] = a[i0] /\ v[2][k] = a[i1]
                        /\ v[3][k] = a[i2] /\ v[4][k] = a[i3]}

\* C26: in a round of an x86_64 body the first g4! mixes the word groups
\* (0,4,8,12), (1,5,9,13), (2,6,10,14), (3,7,11,15) of the working vector;
\* after the lane rotations 0x39, 0x4E, 0x93 the second g4! mixes
\* (0,5,10,15), (1,6,11,12), (2,7,8,13), (3,4,9,14); the rotations 0x93,
\* 0x4E, 0x39 put every word back in its lane; and the round gives the
\* working vector the portable rr! gives with the same message-word pairing.
C26_ColumnDiagonalGrouping ==
    [][ (op' = "round" /\ kind \in VectorBackends)
          => /\ Words(out') = rr(Words(out), Paired(ret), InOrder)
             /\ Cardinality({Words(out)[i] : i \in 0..15}) = 16 =>
                  /\ LaneGroups(Words(out), out)
                       = {<<GG_LANES[k][1], GG_LANES[k][2], GG_LANES[k][3],
                            GG_LANES[k][4]>> : k \in 1..4}
                  /\ LaneGroups(Words(out), Diagonal(out, 57, 78, 147))
                       = {<<GG_LANES[k][1], GG_LANES[k][2], GG_LANES[k][3],
                            GG_LANES[k][4]>> : k \in 5..8}
             /\ Diagonal(Diagonal(out, 57, 78, 147), 147, 78, 57) = out
      ]_vars

\* C26: a round of the SSE2 body on a working vector of sixteen different
\* words
C26_Witness ==
    /\ kind = "SSE2" /\ op = "round" /\ nupd = 5
    /\ Cardinality({Words(out)[i] : i \in 0..15}) = 16
    /\ ctr = U64(BUF_LEN)

\* rotate_right(x, n) on each lane of a
RotatedLanes(a, n) ==
    <<rotate_right(a[1], n), rotate_right(a[2], n), rotate_right(a[3], n),
      rotate_right(a[4], n)>>

\* x + y modulo 2^32 on 16-bit halves: the low halves added, their carry
\* added to the high halves
AddMod32(x, y) ==
    <<(x[1] + y[1] + ((x[2] + y[2]) \div 65536)) % 65536,
      (x[2] + y[2]) % 65536>>

\* the rotations of the two g4! agree with rotate_right on the lanes of a
RotationsAgree(a) ==
    /\ mm_shuffle_epi8(a, xror16) = RotatedLanes(a, 16)
    /\ mm_shuffle_epi8(a, xror8) = RotatedLanes(a, 8)
    /\ OrShifts(a, 16, 16) = RotatedLanes(a, 16)
    /\ OrShifts(a, 12, 20) = RotatedLanes(a, 12)
    /\ OrShifts(a, 8, 24) = RotatedLanes(a, 8)
    /\ OrShifts(a, 7, 25) = RotatedLanes(a, 7)

\* C27: on every word the byte shuffles xror16 and xror8 and the shift pairs
\* (>> 16 | << 16), (>> 12 | << 20), (>> 8 | << 24), (>> 7 | << 25) equal
\* rotate_right by 16, 8, 16, 12, 8 and 7; XORing (ctr low, ctr high,
\* -(last), 0) into the fourth vector gives v[12] ^ ctr low, v[13] ^ ctr
\* high, v[14] complemented iff last and v[15] unchanged, so that the vector
\* bodies start from the working vector of the portable body; and additions
\* are modulo 2^32 in all bodies.
C27_RotationsAndSetup ==
    kind \in VectorBackends =>
        /\ \A i \in 1..4 : RotationsAgree(out[i]) /\ RotationsAgree(ret[i])
        /\ \A i \in 1..4, k \in 1..4 :
               /\ mm_add_epi32(out[i], ret[i])[k] = AddMod32(out[i][k], ret[i][k])
               /\ wrapping_add(out[i][k], ret[i][k])
                      = AddMod32(out[i][k], ret[i][k])
        /\ op = "init" =>
               /\ Words(out) = InitialV(h, ctr, arg = <<1>>)
               /\ out[4] = <<Xor32(IV[4], CtrLo32(ctr)),
                             Xor32(IV[5], CtrHi32(ctr)),
                             IF arg = <<1>> THEN Not32(IV[6]) ELSE IV[6],
                             IV[7]>>

\* C27: the AVX2 body set up for a last block with a counter of 2^63 - 1
C27_Witness ==
    /\ kind = "AVX2" /\ op = "init" /\ arg = <<1>>
    /\ ctr = <<65535, 65535, 65535, 32767>>

\* the value of ctr after new or reset: 64 for a non-empty key, else 0
StartCounter ==
    IF kind = "KeyedBlake2s" /\ saved_key_len > 0 THEN BUF_LEN ELSE 0

\* the number of bytes buf holds for the next compression, as ctr tells it
PendingByCounter ==
    IF ctr = U64(0) THEN 0 ELSE ((ctr[1] + BUF_LEN - 1) % BUF_LEN) + 1

\* C28: in every usable state reached from new or reset through update
\* calls, ctr = c0 + the number of bytes passed to update since then, c0
\* being 64 for a non-empty key and 0 otherwise; every update(data) adds
\* len(data) to ctr; and the number of bytes absorbed but not yet compressed
\* is 0 when ctr = 0 and ((ctr - 1) mod 64) + 1 otherwise.
C28_CounterInvariant ==
    [][ /\ (kind' # "none" /\ ~Poisoned') =>
             /\ ctr' = U64(StartCounter' + Len(stream'))
             /\ StartCounter' + Len(stream') - BUF_LEN * Len(calls')
                    = PendingByCounter'
        /\ (op' = "update" /\ ok') => ctr' = U64Add(ctr, arg'[1])
      ]_vars

\* C29: every update call on a usable context returns, whatever the length
\* of its data: each pass of the block loop that does not return advances j
\* by 64 and leaves bytes to process, the loop is left only through the
\* buffering branch, with the last 1..64 bytes of data, and never with its
\* condition false; update, finalize and reset can be taken in every state
\* of a context between two calls, and finalize and reset are single steps
\* (a call that panics ends too).
C29_Termination ==
    /\ [][ /\ InCall' => arg'[2] < arg'[1]
           /\ (InCall /\ InCall') => arg' = <<arg[1], arg[2] + BUF_LEN>>
           /\ (InCall /\ ~InCall') =>
                /\ op' = "update" /\ ok'
                /\ arg[1] - arg[2] \in 1..BUF_LEN
                /\ SubSeq(buf', 1, arg[1] - arg[2])
                       = SubSeq(out, arg[2] + 1, arg[1])
                /\ stream' = stream \o out
                /\ ctr' = U64Add(ctr, arg[1] - arg[2])
         ]_vars
    /\ InCall ~> (op = "update" /\ ok)
    /\ [](( ~InCall /\ kind # "none") =>
             /\ nupd < MaxUpdates => ENABLED UpdateStep
             /\ ENABLED FinalizeWrite({CallerSlice})
             /\ ENABLED FinalizeResetWrite({CallerSlice})
             /\ ENABLED Reset)

\* C29: an update of 193 bytes on a buffer holding one byte has returned
\* after the buffered block and two passes of the loop were compressed
C29_Witness ==
    /\ op = "update" /\ ok /\ arg = <<3 * BUF_LEN + 1>> /\ nupd = 2
    /\ Len(stream) = 3 * BUF_LEN + 2 /\ Len(calls) = 3
    /\ ctr = U64(3 * BUF_LEN + 2)

----------------------------------------------------------------------------
(* C30: immutable parameters and frame of the compression function         *)

\* h after the compressions recorded in cs[k], cs[k + 1], .. are applied in
\* turn to x
RECURSIVE Replayed(_, _, _)
Replayed(x, cs, k) ==
    IF k > Len(cs) THEN x
    ELSE CHOOSE r \in {Replayed(y, cs, k + 1)
                         : y \in {process_block(x, cs[k].block, cs[k].ctr,
                                                cs[k].last)}} : TRUE

\* C30: once a context is constructed, no call (update, finalize,
\* finalize_reset, finalize_write, finalize_reset_write, reset) changes its
\* type, out_len, saved_key or saved_key_len.  A call other than reset and
\* the resetting finalizes changes h only by compressing: h afterwards is h
\* before with the call's compressions applied in turn, and is h before when
\* the call compressed nothing.  The compressions leave the other fields as
\* the call's own statements set them: an update adds len(data) to ctr, and
\* a finalize compresses with the counter it was entered with, leaves in buf
\* the block it compressed and sets the sentinel.
C30_ImmutableParameters ==
    [][ kind # "none" =>
          /\ kind' = kind /\ out_len' = out_len
          /\ saved_key' = saved_key /\ saved_key_len' = saved_key_len
          /\ op' \in {"update", "finalize", "finalize_write"} =>
               /\ Len(calls') >= Len(calls)
               /\ SubSeq(calls', 1, Len(calls)) = calls
               /\ h' = Replayed(h, calls', Len(calls) + 1)
          /\ (op' = "update" /\ ok') => ctr' = U64Add(ctr, arg'[1])
          /\ (op' \in {"finalize", "finalize_write"} /\ ok') =>
               /\ Len(calls') = Len(calls) + 1
               /\ buf' = calls'[Len(calls')].block
               /\ calls'[Len(calls')].ctr = ctr
               /\ ctr' = POISON
      ]_vars

\* C30: a keyed context with a 32-byte key and out_len 20 after an update
\* that compressed the key block and a block of data
C30_Witness ==
    /\ kind = "KeyedBlake2s" /\ saved_key_len = 32 /\ saved_key = Key(32)
    /\ out_len = 20 /\ op = "update" /\ ok /\ Len(calls) = 2
    /\ arg = <<BUF_LEN + 1>>

====
